---- MODULE Spec2Model ----
(***************************************************************************)
(* Model of the crime-map screen (CrimeMapScreen): the in-memory report    *)
(* collection fed by the bulk fetch and the realtime INSERT channel, the   *)
(* derived nearby-recent view, and the optimistic vote handler with its    *)
(* remote persistence and rollback; of the shell of the app (AuthProvider  *)
(* and the Gate of the root layout); and of the submission of the report   *)
(* form (ReportCrimeScreen).                                               *)
(*                                                                         *)
(* React semantics that the model keeps:                                   *)
(*  - state setters with a function argument (setReports(prev => ...))     *)
(*    apply to the latest state;                                           *)
(*  - a handler reads the state its closure captured at the last render    *)
(*    (variable view), not the latest state;                               *)
(*  - the code after an await runs as a separate step.                     *)
(***************************************************************************)
EXTENDS Integers, Sequences, FiniteSets, TLC

VARIABLES
    table,            \* backend: rows of the reports table, in insertion order
    channel,          \* backend -> client: INSERT events not yet delivered
    dbVotes,          \* backend: rows of report_votes of the signed-in user
    subscribed,       \* the realtime channel of the screen is open
    fetch,            \* the fetchReports call: its phase and the server's answer
    reports,          \* useState reports
    loading,          \* useState loading
    err,              \* useState err
    userId,           \* useState userId
    userLocation,     \* useState userLocation
    now,              \* Date.now()
    myVotes,          \* useState myVotes
    optimisticVotes,  \* useState optimisticVotes
    voteBusy,         \* useState voteBusy
    view,             \* what the closures of the last render captured
    calls,            \* handleVote invocations suspended at their await
    hydrations,       \* vote-hydration effects suspended at their await
    scenario,         \* history: per report, how far the vote scenario that
                      \* the claims describe has got
    drops,            \* history: realtime events dropped by the handler
    selectedFilter,   \* useState selectedFilter
    mounted,          \* the mount effects have run and their cleanup has not
    openChannels,     \* realtime channels the client holds open
    mounts,           \* history: how many times the screen was mounted
    auth,             \* AuthProvider: useState session, user, loading
    authEffect,       \* AuthProvider: the closure of its effect and what it awaits
    authBackend,      \* the session the auth client holds
    route,            \* useSegments()[0]
    gateRan,          \* history: the dependencies of the last run of the Gate effect
    form,             \* ReportCrimeScreen: the form state
    ui,               \* ReportCrimeScreen: isSubmitting, showOtherPicker, last alert
    submissions       \* submitReport invocations suspended at their await

backendVars == <<table, channel, dbVotes>>
storeVars == <<reports, loading, err>>
voteVars == <<myVotes, optimisticVotes, voteBusy>>
vars == <<table, channel, dbVotes, subscribed, fetch, reports, loading, err,
          userId, userLocation, now, myVotes, optimisticVotes, voteBusy,
          view, calls, hydrations, scenario, drops, selectedFilter, mounted,
          openChannels, mounts, auth, authEffect, authBackend, route, gateRan,
          form, ui, submissions>>
lifeVars == <<mounted, openChannels, mounts>>
shellVars == <<auth, authEffect, authBackend, route, gateRan>>
formVars == <<form, ui, submissions>>
appVars == <<auth, authEffect, authBackend, route, gateRan, form, ui, submissions>>

----------------------------------------------------------------------------
(* Bounds of the model *)

MaxReports == 2       \* rows ever inserted into the backend table
MaxCalls == 2         \* handleVote invocations suspended at once
MaxHydrations == 1    \* hydration queries in flight at once
MaxCount == 2         \* a vote is cast only on counters below this value
MaxMounts == 2        \* times the screen is mounted
MaxTokens == 2        \* sessions the auth client issues

----------------------------------------------------------------------------
(* JavaScript values of a raw row: a number, a string or null/undefined *)

Num(n) == [t |-> "number", n |-> n, s |-> ""]
Str(s) == [t |-> "string", n |-> 0, s |-> s]
Null == [t |-> "null", n |-> 0, s |-> ""]

typeof(x) == x.t

\* x ?? d
Coalesce(x, d) == IF x.t = "null" THEN d ELSE x

\* A Record<number, X> is a function whose domain is the set of keys present
\* { ...rec, [k]: v }
Put(rec, k, v) == [x \in (DOMAIN rec) \cup {k} |-> IF x = k THEN v ELSE rec[x]]
\* Mutant: every key is deleted
DelAll(rec, k) == [x \in {} |-> 0]

\* copy = { ...rec }; delete copy[k]
Del(rec, k) == [x \in (DOMAIN rec) \ {k} |-> rec[x]]
Empty == [x \in {} |-> 0]

Abs(x) == IF x < 0 THEN -x ELSE x
Max(a, b) == IF a >= b THEN a ELSE b

----------------------------------------------------------------------------
(* Sanitization of a raw row, written once in fetchReports and once in the *)
(* realtime handler.  created_at: the ISO string is represented by the     *)
(* instant it denotes, in ms.                                              *)

\* String.prototype.toLowerCase on the vocabulary of the model
toLowerCase(s) ==
    CASE s = "Theft" -> "theft"
      [] s = "ROBBERY" -> "robbery"
      [] OTHER -> s

\* typeof r.lat === "number" && typeof r.lon === "number"
HasCoords(r) == typeof(r.lat) = "number" /\ typeof(r.lon) = "number"

SanitizeRow(r) ==
    [id |-> r.id,
     crime_type |-> toLowerCase(Coalesce(r.crime_type, Str("other")).s),
     lat |-> r.lat.n,
     lon |-> r.lon.n,
     severity |-> IF typeof(r.severity) = "number" THEN r.severity ELSE Null,
     created_at |-> r.created_at,
     upvote_no |-> Coalesce(r.upvote_no, Num(0)).n,
     downvote_no |-> Coalesce(r.downvote_no, Num(0)).n]

\* Mutant: every fetched row is mapped, whatever its coordinates
FilterMapUnfiltered(rows) == [i \in 1..Len(rows) |-> SanitizeRow(rows[i])]

RECURSIVE FilterMap(_)
\* (data ?? []).filter(numeric coordinates).map(sanitize)
FilterMap(rows) ==
    IF rows = <<>> THEN <<>>
    ELSE IF HasCoords(Head(rows))
         THEN <<SanitizeRow(Head(rows))>> \o FilterMap(Tail(rows))
         ELSE FilterMap(Tail(rows))

\* typeof n.lat === "number" && typeof n.lon === "number" of the handler
PayloadHasCoords(n) == typeof(n.lat) = "number" /\ typeof(n.lon) = "number"

\* Mutant: the handler keeps the crime_type as it was sent
SanitizePayloadRaw(n) ==
    [id |-> n.id,
     crime_type |-> Coalesce(n.crime_type, Str("other")).s,
     lat |-> n.lat.n,
     lon |-> n.lon.n,
     severity |-> IF typeof(n.severity) = "number" THEN n.severity ELSE Null,
     created_at |-> n.created_at,
     upvote_no |-> Coalesce(n.upvote_no, Num(0)).n,
     downvote_no |-> Coalesce(n.downvote_no, Num(0)).n]

\* The record literal the handler builds from payload.new
SanitizePayload(n) ==
    [id |-> n.id,
     crime_type |-> toLowerCase(Coalesce(n.crime_type, Str("other")).s),
     lat |-> n.lat.n,
     lon |-> n.lon.n,
     severity |-> IF typeof(n.severity) = "number" THEN n.severity ELSE Null,
     created_at |-> n.created_at,
     upvote_no |-> Coalesce(n.upvote_no, Num(0)).n,
     downvote_no |-> Coalesce(n.downvote_no, Num(0)).n]

\* Mutant: the handler prepends without testing the coordinates
IngestInsertUnfiltered(prev, n) == <<SanitizePayload(n)>> \o prev

\* Mutant: the handler writes a collection that holds the new record only
IngestInsertReplacing(prev, n) ==
    IF PayloadHasCoords(n) THEN <<SanitizePayload(n)>> ELSE prev

\* Mutant: the new record is put at the end
IngestInsertAppending(prev, n) ==
    IF PayloadHasCoords(n) THEN prev \o <<SanitizePayload(n)>> ELSE prev

\* setReports(prev => [sanitized, ...prev]) guarded by the typeof test
IngestInsert(prev, n) ==
    IF PayloadHasCoords(n) THEN <<SanitizePayload(n)>> \o prev ELSE prev

----------------------------------------------------------------------------
(* Backend query: .order("created_at", { ascending: false })               *)

RECURSIVE InsertDesc(_, _)
InsertDesc(r, sorted) ==
    IF sorted = <<>> THEN <<r>>
    ELSE IF r.created_at > Head(sorted).created_at
         THEN <<r>> \o sorted
         ELSE <<Head(sorted)>> \o InsertDesc(r, Tail(sorted))

RECURSIVE OrderByCreatedAtDesc(_)
OrderByCreatedAtDesc(rows) ==
    IF rows = <<>> THEN <<>>
    ELSE InsertDesc(Head(rows), OrderByCreatedAtDesc(Tail(rows)))

----------------------------------------------------------------------------
(* Derived views *)

\* Earth radius in km
R == 6371
\* Coordinates are integers counting 1/AngleScale of a radian; distances are
\* integers counting 1/DistScale of a km.
DistScale == 100
AngleScale == R * DistScale

\* Haversine distance between points of one meridian (lon1 = lon2): there
\* dLon = 0, a = sin^2(dLat/2) and c = 2*atan2(sqrt a, sqrt(1-a)) = |dLat|,
\* so the result is R * |dLat|.  Every coordinate of the model has lon = 0.
getDistanceKm(lat1, lon1, lat2, lon2) ==
    LET dLat == Abs(lat2 - lat1)
    IN  (R * dLat * DistScale) \div AngleScale

fiveDaysMs == 5 * 24 * 60 * 60 * 1000

\* distance <= 5, in the distance unit of the model
radiusKm == 5 * DistScale

\* Mutant: exclusive bounds
NearbyRecentExclusive(r, loc, t) ==
    LET timeDiff == t - r.created_at
        distance == getDistanceKm(loc.lat, loc.lon, r.lat, r.lon)
    IN  timeDiff < fiveDaysMs /\ distance < radiusKm

\* The filter predicate of recentNearbyCrimes
NearbyRecent(r, loc, t) ==
    LET timeDiff == t - r.created_at
        distance == getDistanceKm(loc.lat, loc.lon, r.lat, r.lon)
    IN  timeDiff <= fiveDaysMs /\ distance <= radiusKm

\* Mutant: the memo filters without asking for a location
recentNearbyCrimesAnywhere(rs, loc, t) ==
    SelectSeq(rs, LAMBDA r : NearbyRecent(r, loc, t))

\* useMemo recentNearbyCrimes
recentNearbyCrimes(rs, loc, t) ==
    IF ~loc.known THEN <<>>
    ELSE SelectSeq(rs, LAMBDA r : NearbyRecent(r, loc, t))

Ids(rs) == {rs[i].id : i \in 1..Len(rs)}

----------------------------------------------------------------------------
(* Voting helpers *)

\* Mutant: the deltas are added without the clamp at zero
setReportCountsUnclamped(prev, reportId, deltaUp, deltaDown) ==
    [i \in 1..Len(prev) |->
        IF prev[i].id = reportId
        THEN [prev[i] EXCEPT !.upvote_no = prev[i].upvote_no + deltaUp,
                             !.downvote_no = prev[i].downvote_no + deltaDown]
        ELSE prev[i]]

\* Mutant: the record with the id is rebuilt from its id and its counters
\* and put first
setReportCountsRebuilding(prev, reportId, deltaUp, deltaDown) ==
    LET hit == SelectSeq(prev, LAMBDA r : r.id = reportId)
        rest == SelectSeq(prev, LAMBDA r : r.id # reportId)
    IN  [i \in 1..Len(hit) |->
            [hit[i] EXCEPT !.upvote_no = Max(0, hit[i].upvote_no + deltaUp),
                           !.downvote_no = Max(0, hit[i].downvote_no + deltaDown),
                           !.severity = Null]] \o rest

\* Mutant: the deltas are applied to every record, whatever its id
setReportCountsEvery(prev, reportId, deltaUp, deltaDown) ==
    [i \in 1..Len(prev) |->
        [prev[i] EXCEPT !.upvote_no = Max(0, prev[i].upvote_no + deltaUp),
                        !.downvote_no = Max(0, prev[i].downvote_no + deltaDown)]]

\* setReports(prev => prev.map(...)) of setReportCounts
setReportCounts(prev, reportId, deltaUp, deltaDown) ==
    [i \in 1..Len(prev) |->
        IF prev[i].id = reportId
        THEN [prev[i] EXCEPT !.upvote_no = Max(0, prev[i].upvote_no + deltaUp),
                             !.downvote_no = Max(0, prev[i].downvote_no + deltaDown)]
        ELSE prev[i]]

\* optimisticVotes[reportId] ?? myVotes[reportId] ?? 0
CurrentVote(ov, mv, reportId) ==
    IF reportId \in DOMAIN ov THEN ov[reportId]
    ELSE IF reportId \in DOMAIN mv THEN mv[reportId]
    ELSE 0

\* Mutant: a second tap of the same direction does not retract
NewVoteNoRetract(current, next) == next

\* current === next ? 0 : next
NewVote(current, next) == IF current = next THEN 0 ELSE next

\* Mutant: a switch from down to up adds the upvote and leaves the downvote
ForwardDeltaHalfSwitch(current, newVote) ==
    CASE current = 0 /\ newVote = 1 -> <<1, 0>>
      [] current = 0 /\ newVote = -1 -> <<0, 1>>
      [] current = 1 /\ newVote = 0 -> <<-1, 0>>
      [] current = -1 /\ newVote = 0 -> <<0, -1>>
      [] current = 1 /\ newVote = -1 -> <<-1, 1>>
      [] current = -1 /\ newVote = 1 -> <<1, 0>>
      [] OTHER -> <<0, 0>>

\* The six if-statements of the optimistic step, as <<deltaUp, deltaDown>>;
\* <<0, 0>> when none of them fires
ForwardDelta(current, newVote) ==
    CASE current = 0 /\ newVote = 1 -> <<1, 0>>
      [] current = 0 /\ newVote = -1 -> <<0, 1>>
      [] current = 1 /\ newVote = 0 -> <<-1, 0>>
      [] current = -1 /\ newVote = 0 -> <<0, -1>>
      [] current = 1 /\ newVote = -1 -> <<-1, 1>>
      [] current = -1 /\ newVote = 1 -> <<1, -1>>
      [] OTHER -> <<0, 0>>

\* Mutant: the rollback of a switch restores one counter only
RollbackDeltaPartial(current, newVote) ==
    CASE current = 0 /\ newVote = 1 -> <<-1, 0>>
      [] current = 0 /\ newVote = -1 -> <<0, -1>>
      [] current = 1 /\ newVote = 0 -> <<1, 0>>
      [] current = -1 /\ newVote = 0 -> <<0, 1>>
      [] current = 1 /\ newVote = -1 -> <<1, 0>>
      [] current = -1 /\ newVote = 1 -> <<0, 1>>
      [] OTHER -> <<0, 0>>

\* The six if-statements of the catch block
RollbackDelta(current, newVote) ==
    CASE current = 0 /\ newVote = 1 -> <<-1, 0>>
      [] current = 0 /\ newVote = -1 -> <<0, -1>>
      [] current = 1 /\ newVote = 0 -> <<1, 0>>
      [] current = -1 /\ newVote = 0 -> <<0, 1>>
      [] current = 1 /\ newVote = -1 -> <<1, -1>>
      [] current = -1 /\ newVote = 1 -> <<-1, 1>>
      [] OTHER -> <<0, 0>>

\* One of the six if-statements calls setReportCounts; none does for <<0, 0>>
ApplyDelta(prev, reportId, d) ==
    IF d = <<0, 0>> THEN prev ELSE setReportCounts(prev, reportId, d[1], d[2])

\* Mutant: a plain insert, without the conflict target
UpsertVoteInserting(votes, reportId, value) ==
    votes \cup {[report_id |-> reportId, value |-> value]}

\* report_votes: upsert(..., { onConflict: "report_id,user_id" })
UpsertVote(votes, reportId, value) ==
    {v \in votes : v.report_id # reportId}
        \cup {[report_id |-> reportId, value |-> value]}

\* report_votes: delete().match({ report_id, user_id })
DeleteVote(votes, reportId) == {v \in votes : v.report_id # reportId}

----------------------------------------------------------------------------
(* State of the screen *)

NullId == ""
TheUser == "u1"
NoLocation == [known |-> FALSE, lat |-> 0, lon |-> 0]
NoFetch == [phase |-> "idle", error |-> FALSE, data |-> <<>>]
NoErr == ""

\* What the closures of a render capture: the state of that render and the
\* ids of its recentNearbyCrimes memo
Rendered ==
    [userId |-> userId, myVotes |-> myVotes,
     optimisticVotes |-> optimisticVotes, voteBusy |-> voteBusy,
     nearbyIds |-> Ids(recentNearbyCrimes(reports, userLocation, now))]

\* !userId || voteBusy[reportId]
VoteGuard(v, reportId) ==
    v.userId = NullId \/ (reportId \in DOMAIN v.voteBusy /\ v.voteBusy[reportId])

RemoveAt(seq, i) == SubSeq(seq, 1, i - 1) \o SubSeq(seq, i + 1, Len(seq))

----------------------------------------------------------------------------
(* History kept for stating the claims; no action reads it in a guard *)

\* <<upvote_no, downvote_no>> of every record with this id, in collection order
CountsOf(rs, reportId) ==
    LET mine == SelectSeq(rs, LAMBDA r : r.id = reportId)
    IN  [i \in 1..Len(mine) |-> <<mine[i].upvote_no, mine[i].downvote_no>>]

\* An entry of a Record<number, X>: <<present, value>>
Entry(rec, k) == IF k \in DOMAIN rec THEN <<TRUE, rec[k]>> ELSE <<FALSE, 0>>

CallsOn(reportId) == {i \in 1..Len(calls) : calls[i].reportId = reportId}

ReportIds == 1..MaxReports

\* The render the handler was taken from shows the latest vote state of the report
Fresh(reportId) ==
    /\ Entry(view.myVotes, reportId) = Entry(myVotes, reportId)
    /\ Entry(view.optimisticVotes, reportId) = Entry(optimisticVotes, reportId)
    /\ Entry(view.voteBusy, reportId) = Entry(voteBusy, reportId)
    /\ view.userId = userId

\* Phases of the scenario of one report:
\*   first    an accepted handleVote, taken from a fresh render while no other
\*            mutation of the report was in flight, is suspended at its await;
\*            base and myBase are the counters and the myVotes entry it found,
\*            cur and dir its current vote and its direction
\*   double   handleVote was invoked again with the same direction before the
\*            first call settled
\*   failed   the first call settled after a failure, nothing else touched the
\*            report since
\*   between  the first call settled after a success
\*   second   a second accepted handleVote with the same direction, taken from
\*            a fresh render after the first settled, is suspended
\*   done     the second call settled after a success
\*   lost     a call settled while the collection held no record of the report
\* ins tells that a realtime INSERT was applied to the collection while the
\* call of phase first or second was suspended
Idle ==
    [ph |-> "idle", base |-> <<>>, myBase |-> <<FALSE, 0>>, cur |-> 0, dir |-> 0,
     ins |-> FALSE]

Starts(reportId, accepted) ==
    /\ accepted
    /\ Fresh(reportId)
    /\ CallsOn(reportId) = {}
    /\ Len(CountsOf(reports, reportId)) = 1

ScenarioOnVote(reportId, next, accepted) ==
    LET sc == scenario[reportId]
        step ==
            IF sc.ph = "double" THEN sc
            ELSE IF sc.ph = "first" /\ next = sc.dir
            THEN [sc EXCEPT !.ph = "double"]
            ELSE IF sc.ph = "between" /\ next = sc.dir /\ accepted /\ Fresh(reportId)
            THEN [sc EXCEPT !.ph = "second"]
            ELSE IF Starts(reportId, accepted)
            THEN [ph |-> "first", base |-> CountsOf(reports, reportId),
                  myBase |-> Entry(myVotes, reportId),
                  cur |-> CurrentVote(optimisticVotes, myVotes, reportId),
                  dir |-> next, ins |-> FALSE]
            ELSE IF accepted THEN Idle
            ELSE sc
    IN  [scenario EXCEPT ![reportId] = step]

ScenarioOnSettle(reportId, ok) ==
    LET sc == scenario[reportId]
        step ==
            IF reportId \notin Ids(reports) THEN [Idle EXCEPT !.ph = "lost"]
            ELSE IF sc.ph = "first" /\ ok THEN [sc EXCEPT !.ph = "between"]
            ELSE IF sc.ph = "first" THEN [sc EXCEPT !.ph = "failed"]
            ELSE IF sc.ph = "second" /\ ok THEN [sc EXCEPT !.ph = "done"]
            ELSE Idle
    IN  [scenario EXCEPT ![reportId] = step]

\* A realtime INSERT of a report: the scenario of that report ends, the
\* scenarios of the calls that are suspended take note of it
ScenarioOnInsert(reportId) ==
    [i \in ReportIds |->
        IF i = reportId THEN Idle
        ELSE IF scenario[i].ph \in {"first", "second"}
        THEN [scenario[i] EXCEPT !.ins = TRUE]
        ELSE scenario[i]]

\* A write to the collection or to myVotes from outside the vote handler ends
\* the scenarios of the reports it touches
ScenarioReset(ids) ==
    [i \in ReportIds |-> IF i \in ids THEN Idle ELSE scenario[i]]

----------------------------------------------------------------------------
(* Backend *)

\* Instants: the clock of the screen reads ClockStart; a report created at
\* instant 1 is exactly five days old, one created at 0 is 1 ms older
ClockStart == fiveDaysMs + 1
CreatedAts == {0, 1}

RawRow(id, lat, lon, createdAt, up, down) ==
    [id |-> id, crime_type |-> Str("theft"), lat |-> lat, lon |-> lon,
     severity |-> Null, created_at |-> createdAt, upvote_no |-> up,
     downvote_no |-> down]

\* An INSERT into reports (report.tsx submitReport, created_at: pickedAt, or
\* any other writer); the id is assigned by the backend; subscribers get an event
InsertReport(lat, lon, createdAt, up, down) ==
    /\ Len(table) < MaxReports
    /\ LET row == RawRow(Len(table) + 1, lat, lon, createdAt, up, down)
       IN  /\ table' = Append(table, row)
           /\ channel' = IF subscribed THEN Append(channel, row) ELSE channel
    /\ UNCHANGED <<dbVotes, subscribed, fetch, storeVars, userId, userLocation,
                   now, voteVars, view, calls, hydrations, scenario, drops,
                   selectedFilter, lifeVars, appVars>>

\* A vote the user cast in an earlier session, before this screen mounted
EarlierVote(reportId, value) ==
    /\ fetch.phase = "idle"
    /\ reportId \in Ids(table)
    /\ dbVotes' = UpsertVote(dbVotes, reportId, value)
    /\ UNCHANGED <<table, channel, subscribed, fetch, storeVars, userId,
                   userLocation, now, voteVars, view, calls, hydrations,
                   scenario, drops,
                   selectedFilter, lifeVars, appVars>>

----------------------------------------------------------------------------
(* Mount effects, fetchReports and the realtime handler *)

\* useEffect(() => { fetchReports(); subscribe }): fetchReports runs to its
\* await (setLoading(true), setErr(null), query sent) and the channel opens
MountEffect ==
    /\ ~mounted
    /\ mounts < MaxMounts
    /\ fetch.phase = "idle"
    /\ fetch' = [fetch EXCEPT !.phase = "pending"]
    /\ loading' = TRUE
    /\ err' = NoErr
    /\ subscribed' = TRUE
    /\ mounted' = TRUE
    /\ openChannels' = openChannels + 1
    /\ mounts' = mounts + 1
    /\ UNCHANGED <<backendVars, reports, userId, userLocation, now, voteVars,
                   view, calls, hydrations, scenario, drops, selectedFilter,
                   appVars>>

\* The state of a screen instance that React has just constructed; an
\* unmounted instance is gone, and the next mount starts from this state
FreshInstance ==
    /\ fetch' = NoFetch
    /\ reports' = <<>>
    /\ loading' = TRUE
    /\ err' = NoErr
    /\ userId' = NullId
    /\ userLocation' = NoLocation
    /\ myVotes' = Empty
    /\ optimisticVotes' = Empty
    /\ voteBusy' = Empty
    /\ selectedFilter' = "all"
    /\ view' = [userId |-> NullId, myVotes |-> Empty, optimisticVotes |-> Empty,
                voteBusy |-> Empty, nearbyIds |-> {}]
    /\ calls' = <<>>
    /\ hydrations' = <<>>
    /\ scenario' = [i \in ReportIds |-> Idle]

\* Mutant: the cleanup does not remove the channel
UnmountLeak ==
    /\ mounted
    /\ mounted' = FALSE
    /\ FreshInstance
    /\ UNCHANGED <<table, channel, dbVotes, subscribed, openChannels, now,
                   drops, mounts, appVars>>

\* The screen unmounts: the cleanup of the mount effect removes the channel,
\* whose undelivered events are discarded with it
Unmount ==
    /\ mounted
    /\ mounted' = FALSE
    /\ subscribed' = FALSE
    /\ openChannels' = openChannels - 1
    /\ channel' = <<>>
    /\ FreshInstance
    /\ UNCHANGED <<table, dbVotes, now, drops, mounts, appVars>>

\* The backend answers the query: the rows ordered by created_at descending
ServerQuery ==
    /\ fetch.phase = "pending"
    /\ fetch' = [phase |-> "answered", error |-> FALSE,
                 data |-> OrderByCreatedAtDesc(table)]
    /\ UNCHANGED <<backendVars, subscribed, storeVars, userId, userLocation, now,
                   voteVars, view, calls, hydrations, scenario, drops,
                   selectedFilter, lifeVars, appVars>>

\* ... or the transport fails
ServerQueryError ==
    /\ fetch.phase = "pending"
    /\ fetch' = [phase |-> "answered", error |-> TRUE, data |-> <<>>]
    /\ UNCHANGED <<backendVars, subscribed, storeVars, userId, userLocation, now,
                   voteVars, view, calls, hydrations, scenario, drops,
                   selectedFilter, lifeVars, appVars>>

\* Mutant: the error branch also empties the collection
FetchCompleteClearing ==
    /\ fetch.phase = "answered"
    /\ fetch' = [phase |-> "done", error |-> fetch.error, data |-> <<>>]
    /\ reports' = IF fetch.error THEN <<>> ELSE FilterMap(fetch.data)
    /\ err' = IF fetch.error THEN "error" ELSE err
    /\ loading' = FALSE
    /\ scenario' = ScenarioReset(ReportIds)
    /\ UNCHANGED <<backendVars, subscribed, userId, userLocation, now, voteVars,
                   view, calls, hydrations, drops, selectedFilter, lifeVars, appVars>>

\* fetchReports after its await
FetchComplete ==
    /\ fetch.phase = "answered"
    /\ fetch' = [phase |-> "done", error |-> fetch.error, data |-> <<>>]
    /\ IF fetch.error
       THEN /\ err' = "error"
            /\ loading' = FALSE
            /\ UNCHANGED <<reports, scenario>>
       ELSE /\ reports' = FilterMap(fetch.data)
            /\ loading' = FALSE
            /\ scenario' = ScenarioReset(ReportIds)
            /\ UNCHANGED err
    /\ UNCHANGED <<backendVars, subscribed, userId, userLocation, now, voteVars,
                   view, calls, hydrations, drops,
                   selectedFilter, lifeVars, appVars>>

\* The postgres_changes INSERT callback
RealtimeInsert ==
    /\ channel # <<>>
    /\ LET n == Head(channel)
       IN  /\ reports' = IngestInsert(reports, n)
           /\ scenario' = IF PayloadHasCoords(n) THEN ScenarioOnInsert(n.id)
                          ELSE scenario
           /\ drops' = IF PayloadHasCoords(n) THEN drops ELSE drops + 1
    /\ channel' = Tail(channel)
    /\ UNCHANGED <<table, dbVotes, subscribed, fetch, loading, err, userId,
                   userLocation, now, voteVars, view, calls, hydrations,
                   selectedFilter, lifeVars, appVars>>

\* supabase.auth.getUser() resolved with a signed-in user
GetUser ==
    /\ userId = NullId
    /\ userId' = TheUser
    /\ UNCHANGED <<backendVars, subscribed, fetch, storeVars, userLocation, now,
                   voteVars, view, calls, hydrations, scenario, drops,
                   selectedFilter, lifeVars, appVars>>

\* Location.getCurrentPositionAsync resolved
GetLocation(lat) ==
    /\ ~userLocation.known
    /\ userLocation' = [known |-> TRUE, lat |-> lat, lon |-> 0]
    /\ UNCHANGED <<backendVars, subscribed, fetch, storeVars, userId, now,
                   voteVars, view, calls, hydrations, scenario, drops,
                   selectedFilter, lifeVars, appVars>>

\* React renders the screen again: new closures over the latest state
Render ==
    /\ view # Rendered
    /\ view' = Rendered
    /\ UNCHANGED <<backendVars, subscribed, fetch, storeVars, userId,
                   userLocation, now, voteVars, calls, hydrations, scenario, drops,
                   selectedFilter, lifeVars, appVars>>

----------------------------------------------------------------------------
(* handleVote *)

\* handleVote(reportId, next) up to its await, called through a closure of the
\* last render.  The guard returns early; otherwise the handler marks the
\* report busy, overlays the new vote, adjusts the counters and sends the
\* delete or the upsert.
HandleVote(reportId, next) ==
    /\ reportId \in Ids(reports)
    /\ Len(calls) < MaxCalls
    /\ \A i \in 1..Len(reports) :
          reports[i].upvote_no < MaxCount /\ reports[i].downvote_no < MaxCount
    /\ LET accepted == ~VoteGuard(view, reportId)
           current == CurrentVote(view.optimisticVotes, view.myVotes, reportId)
           newVote == NewVote(current, next)
       IN  /\ scenario' = ScenarioOnVote(reportId, next, accepted)
           /\ IF accepted
              THEN /\ voteBusy' = Put(voteBusy, reportId, TRUE)
                   /\ optimisticVotes' = Put(optimisticVotes, reportId, newVote)
                   /\ reports' = ApplyDelta(reports, reportId,
                                            ForwardDelta(current, newVote))
                   /\ calls' = Append(calls,
                         [reportId |-> reportId, userId |-> view.userId,
                          current |-> current, newVote |-> newVote,
                          phase |-> "sent"])
              ELSE UNCHANGED <<voteBusy, optimisticVotes, reports, calls>>
    /\ UNCHANGED <<backendVars, subscribed, fetch, loading, err, userId,
                   userLocation, now, myVotes, view, hydrations, drops,
                   selectedFilter, lifeVars, appVars>>

\* The backend executes the delete or the upsert and answers without error
ServerVote(i) ==
    /\ i \in 1..Len(calls)
    /\ calls[i].phase = "sent"
    /\ dbVotes' = IF calls[i].newVote = 0
                  THEN DeleteVote(dbVotes, calls[i].reportId)
                  ELSE UpsertVote(dbVotes, calls[i].reportId, calls[i].newVote)
    /\ calls' = [calls EXCEPT ![i].phase = "ok"]
    /\ UNCHANGED <<table, channel, subscribed, fetch, storeVars, userId,
                   userLocation, now, voteVars, view, hydrations, scenario, drops,
                   selectedFilter, lifeVars, appVars>>

\* The call fails: an error answer, a throw, a transport timeout
ServerVoteError(i) ==
    /\ i \in 1..Len(calls)
    /\ calls[i].phase = "sent"
    /\ calls' = [calls EXCEPT ![i].phase = "err"]
    /\ UNCHANGED <<backendVars, subscribed, fetch, storeVars, userId,
                   userLocation, now, voteVars, view, hydrations, scenario, drops,
                   selectedFilter, lifeVars, appVars>>

\* Mutant: setMyVotes runs whether the remote call succeeded or not
SettleVoteCommitting(i) ==
    /\ i \in 1..Len(calls)
    /\ calls[i].phase \in {"ok", "err"}
    /\ LET c == calls[i]
           ok == c.phase = "ok"
       IN  /\ myVotes' = Put(myVotes, c.reportId, c.newVote)
           /\ reports' = IF ok THEN reports
                         ELSE ApplyDelta(reports, c.reportId,
                                         RollbackDelta(c.current, c.newVote))
           /\ optimisticVotes' = Del(optimisticVotes, c.reportId)
           /\ voteBusy' = Put(voteBusy, c.reportId, FALSE)
           /\ scenario' = ScenarioOnSettle(c.reportId, ok)
    /\ calls' = RemoveAt(calls, i)
    /\ UNCHANGED <<backendVars, subscribed, fetch, loading, err, userId,
                   userLocation, now, view, hydrations, drops,
                   selectedFilter, lifeVars, appVars>>

\* Mutant: there is no finally block
SettleVoteNoFinally(i) ==
    /\ i \in 1..Len(calls)
    /\ calls[i].phase \in {"ok", "err"}
    /\ LET c == calls[i]
           ok == c.phase = "ok"
       IN  /\ myVotes' = IF ok THEN Put(myVotes, c.reportId, c.newVote) ELSE myVotes
           /\ reports' = IF ok THEN reports
                         ELSE ApplyDelta(reports, c.reportId,
                                         RollbackDelta(c.current, c.newVote))
           /\ scenario' = ScenarioOnSettle(c.reportId, ok)
    /\ calls' = RemoveAt(calls, i)
    /\ UNCHANGED <<backendVars, subscribed, fetch, loading, err, userId,
                   userLocation, now, optimisticVotes, voteBusy, view,
                   hydrations, drops, selectedFilter, lifeVars, appVars>>

\* handleVote after its await: setMyVotes on success, the rollback in the
\* catch block on failure, then the finally block
SettleVote(i) ==
    /\ i \in 1..Len(calls)
    /\ calls[i].phase \in {"ok", "err"}
    /\ LET c == calls[i]
           ok == c.phase = "ok"
       IN  /\ myVotes' = IF ok THEN Put(myVotes, c.reportId, c.newVote) ELSE myVotes
           /\ reports' = IF ok THEN reports
                         ELSE ApplyDelta(reports, c.reportId,
                                         RollbackDelta(c.current, c.newVote))
           /\ optimisticVotes' = Del(optimisticVotes, c.reportId)
           /\ voteBusy' = Put(voteBusy, c.reportId, FALSE)
           /\ scenario' = ScenarioOnSettle(c.reportId, ok)
    /\ calls' = RemoveAt(calls, i)
    /\ UNCHANGED <<backendVars, subscribed, fetch, loading, err, userId,
                   userLocation, now, view, hydrations, drops,
                   selectedFilter, lifeVars, appVars>>

----------------------------------------------------------------------------
(* Vote hydration effect *)

\* The effect of a render with a user and nearby reports: it captures the ids
\* and the optimisticVotes of that render and sends the select
HydrateStart ==
    /\ view.userId # NullId
    /\ view.nearbyIds # {}
    /\ Len(hydrations) < MaxHydrations
    /\ hydrations' = Append(hydrations,
          [ids |-> view.nearbyIds, overlay |-> DOMAIN view.optimisticVotes,
           phase |-> "sent", data |-> {}])
    /\ UNCHANGED <<backendVars, subscribed, fetch, storeVars, userId,
                   userLocation, now, voteVars, view, calls, scenario, drops,
                   selectedFilter, lifeVars, appVars>>

\* The backend answers: .eq("user_id", userId).in("report_id", ids)
ServerVotes(i) ==
    /\ i \in 1..Len(hydrations)
    /\ hydrations[i].phase = "sent"
    /\ hydrations' = [hydrations EXCEPT
          ![i].phase = "answered",
          ![i].data = {v \in dbVotes : v.report_id \in hydrations[i].ids}]
    /\ UNCHANGED <<backendVars, subscribed, fetch, storeVars, userId,
                   userLocation, now, voteVars, view, calls, scenario, drops,
                   selectedFilter, lifeVars, appVars>>

\* setMyVotes(prev => ...) of the effect: every returned row whose report had
\* no overlay entry in the captured optimisticVotes
HydrateApply(i) ==
    /\ i \in 1..Len(hydrations)
    /\ hydrations[i].phase = "answered"
    /\ LET h == hydrations[i]
           rows == {v \in h.data : v.report_id \notin h.overlay}
           written == {v.report_id : v \in rows}
           valueOf(rid) == (CHOOSE v \in rows : v.report_id = rid).value
       IN  /\ myVotes' = [rid \in (DOMAIN myVotes) \cup written |->
                            IF rid \in written
                            THEN (IF valueOf(rid) = 1 THEN 1 ELSE -1)
                            ELSE myVotes[rid]]
           /\ scenario' = ScenarioReset(written)
    /\ hydrations' = RemoveAt(hydrations, i)
    /\ UNCHANGED <<backendVars, subscribed, fetch, storeVars, userId,
                   userLocation, now, optimisticVotes, voteBusy, view, calls,
                   drops,
                   selectedFilter, lifeVars, appVars>>

----------------------------------------------------------------------------
(* Values of the app shell and of the report form *)

\* Session | null: a session carries an access token and its user
NoSession == [t |-> "null", token |-> 0, user |-> NullId]
Session(k) == [t |-> "session", token |-> k, user |-> TheUser]

\* sess?.user ?? null
UserOf(sess) == IF sess.t = "null" THEN NullId ELSE sess.user

\* LatLng | null
NoLatLng == [t |-> "null", latitude |-> 0, longitude |-> 0]
LatLng(lat, lon) == [t |-> "object", latitude |-> lat, longitude |-> lon]

\* Date | null: a picked incident time is the instant it denotes
NoDate == [t |-> "null", n |-> 0, s |-> ""]

\* The useState initial values of ReportCrimeScreen; locationText is held as
\* the list of its comma separated parts
EmptyForm ==
    [crimeType |-> "", selectedOther |-> "", description |-> "",
     gender |-> "unknown", pickedAt |-> NoDate, locationText |-> <<"">>,
     currentLocation |-> NoLatLng, markerLocation |-> NoLatLng]

----------------------------------------------------------------------------
(* The screen after construction *)

Init ==
    /\ table = <<>>
    /\ channel = <<>>
    /\ dbVotes = {}
    /\ subscribed = FALSE
    /\ fetch = NoFetch
    /\ reports = <<>>
    /\ loading = TRUE
    /\ err = NoErr
    /\ userId = NullId
    /\ userLocation = NoLocation
    /\ now = ClockStart
    /\ myVotes = Empty
    /\ optimisticVotes = Empty
    /\ voteBusy = Empty
    /\ view = Rendered
    /\ calls = <<>>
    /\ hydrations = <<>>
    /\ scenario = [i \in ReportIds |-> Idle]
    /\ drops = 0
    /\ selectedFilter = "all"
    /\ mounted = FALSE
    /\ openChannels = 0
    /\ mounts = 0
    /\ auth = [session |-> NoSession, user |-> NullId, loading |-> TRUE]
    /\ authEffect = [alive |-> FALSE, subscribed |-> FALSE, getSession |-> "idle",
                     data |-> NoSession, events |-> <<>>,
                     delivered |-> FALSE, last |-> NoSession, dropped |-> 0]
    /\ authBackend = [current |-> NoSession, issued |-> 0]
    /\ route = [group |-> "(tabs)", screen |-> "index"]
    /\ gateRan = <<>>
    /\ form = EmptyForm
    /\ ui = [isSubmitting |-> FALSE, showOtherPicker |-> FALSE, alert |-> ""]
    /\ submissions = <<>>

----------------------------------------------------------------------------
(* The report collection: rows are inserted before and after the screen    *)
(* mounts, with and without numeric coordinates, with any incident time    *)

Coordinates == {<<Num(0), Num(0)>>, <<Null, Num(0)>>, <<Num(0), Null>>,
                <<Str("23.8"), Num(0)>>}

NextStore ==
    \/ \E c \in Coordinates, createdAt \in CreatedAts :
          InsertReport(c[1], c[2], createdAt, Null, Null)
    \/ MountEffect
    \/ ServerQuery
    \/ ServerQueryError
    \/ FetchComplete
    \/ RealtimeInsert

SpecStore == Init /\ [][NextStore]_vars

----------------------------------------------------------------------------
(* Voting on the one report of the snapshot *)

\* The row that exists when the screen mounts
EarlierReport(up) ==
    /\ table = <<>>
    /\ fetch.phase = "idle"
    /\ InsertReport(Num(0), Num(0), 1, up, Null)

NextVote ==
    \/ \E up \in {Null, Num(1)} : EarlierReport(up)
    \/ MountEffect
    \/ ServerQuery
    \/ FetchComplete
    \/ GetUser
    \/ Render
    \/ \E reportId \in ReportIds, next \in {1, -1} : HandleVote(reportId, next)
    \/ \E i \in 1..MaxCalls : ServerVote(i)
    \/ \E i \in 1..MaxCalls : ServerVoteError(i)
    \/ \E i \in 1..MaxCalls : SettleVote(i)

SpecVote == Init /\ [][NextVote]_vars

\* The code after an await is a job that the event loop runs once the
\* awaited call has resolved: a resolved call is settled
\* Here at most two invocations are suspended at once: a call and a second
\* call made before the first has settled.
TapTwice(reportId, next) ==
    /\ Len(calls) < 2
    /\ HandleVote(reportId, next)

NextVoteFair ==
    \/ EarlierReport(Null)
    \/ MountEffect
    \/ ServerQuery
    \/ FetchComplete
    \/ GetUser
    \/ Render
    \/ \E reportId \in ReportIds, next \in {1, -1} : TapTwice(reportId, next)
    \/ \E i \in 1..MaxCalls : ServerVote(i)
    \/ \E i \in 1..MaxCalls : ServerVoteError(i)
    \/ \E i \in 1..MaxCalls : SettleVote(i)

SpecVoteFair ==
    Init /\ [][NextVoteFair]_vars /\ \A i \in 1..MaxCalls : WF_vars(SettleVote(i))

----------------------------------------------------------------------------
(* Voting with the votes of an earlier session hydrated from the backend *)

NextHydrate ==
    \/ \E up \in {Null, Num(1)} : EarlierReport(up)
    \/ \E reportId \in ReportIds, value \in {1, -1} : EarlierVote(reportId, value)
    \/ MountEffect
    \/ ServerQuery
    \/ FetchComplete
    \/ GetUser
    \/ GetLocation(0)
    \/ Render
    \/ \E reportId \in ReportIds, next \in {1, -1} : HandleVote(reportId, next)
    \/ \E i \in 1..MaxCalls : ServerVote(i)
    \/ \E i \in 1..MaxCalls : ServerVoteError(i)
    \/ \E i \in 1..MaxCalls : SettleVote(i)
    \/ HydrateStart
    \/ \E i \in 1..MaxHydrations : ServerVotes(i)
    \/ \E i \in 1..MaxHydrations : HydrateApply(i)

SpecHydrate == Init /\ [][NextHydrate]_vars

----------------------------------------------------------------------------
(* setReportCounts on its own: the counters of the snapshot are drawn from  *)
(* 0..MaxCount, then the function is applied with the deltas of a vote and  *)
(* of its rollback, and with arbitrary signed deltas                        *)

EarlierReportCounts(up, down) ==
    /\ table = <<>>
    /\ fetch.phase = "idle"
    /\ InsertReport(Num(0), Num(0), 1, Num(up), Num(down))

\* The optimistic step of a vote current -> NewVote(current, next)
ForwardStep(reportId, current, next) ==
    /\ reportId \in Ids(reports)
    /\ scenario[reportId].ph \in {"idle", "failed"}
    /\ \A i \in 1..Len(reports) :
          reports[i].upvote_no <= MaxCount /\ reports[i].downvote_no <= MaxCount
    /\ reports' = ApplyDelta(reports, reportId,
                             ForwardDelta(current, NewVote(current, next)))
    /\ scenario' = [scenario EXCEPT ![reportId] =
          [ph |-> "first", base |-> CountsOf(reports, reportId),
           myBase |-> <<FALSE, 0>>, cur |-> current, dir |-> next,
           ins |-> FALSE]]
    /\ UNCHANGED <<backendVars, subscribed, fetch, loading, err, userId,
                   userLocation, now, voteVars, view, calls, hydrations, drops,
                   selectedFilter, lifeVars, appVars>>

\* The rollback of that vote
RollbackStep(reportId) ==
    /\ scenario[reportId].ph = "first"
    /\ LET sc == scenario[reportId]
       IN  reports' = ApplyDelta(reports, reportId,
                                 RollbackDelta(sc.cur, NewVote(sc.cur, sc.dir)))
    /\ scenario' = [scenario EXCEPT ![reportId].ph = "failed"]
    /\ UNCHANGED <<backendVars, subscribed, fetch, loading, err, userId,
                   userLocation, now, voteVars, view, calls, hydrations, drops,
                   selectedFilter, lifeVars, appVars>>

Deltas == {-2, -1, 0, 1, 2}

\* setReportCounts with any signed deltas
SetCounts(reportId, deltaUp, deltaDown) ==
    /\ reportId \in Ids(reports)
    /\ \A i \in 1..Len(reports) :
          /\ reports[i].upvote_no + deltaUp <= MaxCount
          /\ reports[i].downvote_no + deltaDown <= MaxCount
    /\ reports' = setReportCounts(reports, reportId, deltaUp, deltaDown)
    /\ scenario' = ScenarioReset({reportId})
    /\ UNCHANGED <<backendVars, subscribed, fetch, loading, err, userId,
                   userLocation, now, voteVars, view, calls, hydrations, drops,
                   selectedFilter, lifeVars, appVars>>

NextCounts ==
    \/ \E up \in 0..MaxCount, down \in 0..MaxCount : EarlierReportCounts(up, down)
    \/ MountEffect
    \/ ServerQuery
    \/ FetchComplete
    \/ \E reportId \in ReportIds, current \in {0, 1, -1}, next \in {1, -1} :
          ForwardStep(reportId, current, next)
    \/ \E reportId \in ReportIds : RollbackStep(reportId)
    \/ \E reportId \in ReportIds, deltaUp \in Deltas, deltaDown \in Deltas :
          SetCounts(reportId, deltaUp, deltaDown)

SpecCounts == Init /\ [][NextCounts]_vars

----------------------------------------------------------------------------
(* The nearby-recent view: reports at and around the 5 km and 5 day bounds *)

NearbyLats == {0, 5 * DistScale, 5 * DistScale + 1, -(5 * DistScale)}
NearbyTimes == {0, 1, ClockStart}

EarlierReportAt(lat, createdAt) ==
    /\ fetch.phase = "idle"
    /\ InsertReport(Num(lat), Num(0), createdAt, Null, Null)

NextNearby ==
    \/ \E lat \in NearbyLats, createdAt \in NearbyTimes :
          EarlierReportAt(lat, createdAt)
    \/ MountEffect
    \/ ServerQuery
    \/ FetchComplete
    \/ \E lat \in {0, 1} : GetLocation(lat)
    \/ Render

SpecNearby == Init /\ [][NextNearby]_vars

----------------------------------------------------------------------------
(* The screen mounted and unmounted while rows are inserted *)

NextLife ==
    \/ \E createdAt \in CreatedAts :
          InsertReport(Num(0), Num(0), createdAt, Null, Null)
    \/ MountEffect
    \/ Unmount
    \/ ServerQuery
    \/ ServerQueryError
    \/ FetchComplete
    \/ RealtimeInsert

SpecLife == Init /\ [][NextLife]_vars

----------------------------------------------------------------------------
(* The type filter, the pin list and the statistics *)

\* A severity is held in tenths: 35 stands for 3.5
SeverityScale == 10
sevenDaysMs == 7 * 86400 * 1000

\* Mutant: "all" is matched against crime_type like any other id
filteredNoAll == SelectSeq(reports, LAMBDA r : r.crime_type = selectedFilter)

\* useMemo filtered: the pins of the map
filtered ==
    IF selectedFilter = "all" THEN reports
    ELSE SelectSeq(reports, LAMBDA r : r.crime_type = selectedFilter)

\* Mutant: the total counts the pins
totalReportsOfPins == Len(filtered)

\* reports.length
totalReports == Len(reports)

\* reports.filter(r => Date.now() - created_at < 7 days).length
weekCount ==
    Len(SelectSeq(reports, LAMBDA r : now - r.created_at < sevenDaysMs))

\* Mutant: a missing severity counts as the highest
highCriticalUnscored ==
    Len(SelectSeq(reports,
           LAMBDA r : Coalesce(r.severity, Num(5 * SeverityScale)).n * 2
                         >= 7 * SeverityScale))

\* reports.filter(r => (r.severity ?? 0) >= 3.5).length
highCritical ==
    Len(SelectSeq(reports,
           LAMBDA r : Coalesce(r.severity, Num(0)).n * 2 >= 7 * SeverityScale))

\* The recentNearbyCrimes memo of the current state
nearbyRecent == recentNearbyCrimes(reports, userLocation, now)

\* The ids of CRIME_TYPES that the model uses
FilterIds == {"all", "theft", "robbery"}

\* onPress={() => setSelectedFilter(type.id)}
SelectFilter(id) ==
    /\ id # selectedFilter
    /\ selectedFilter' = id
    /\ UNCHANGED <<backendVars, subscribed, fetch, storeVars, userId,
                   userLocation, now, voteVars, view, calls, hydrations,
                   scenario, drops, lifeVars, appVars>>

CrimeTypes == {Str("theft"), Str("ROBBERY"), Null}
Severities == {Null, Num(34), Num(35)}
StatTimes == {ClockStart - sevenDaysMs, ClockStart - sevenDaysMs + 1, 1}

\* A row of any type, severity and incident time that exists when the screen
\* mounts
EarlierReportOf(crimeType, severity, createdAt) ==
    /\ fetch.phase = "idle"
    /\ Len(table) < MaxReports
    /\ table' = Append(table,
          [RawRow(Len(table) + 1, Num(0), Num(0), createdAt, Null, Null)
              EXCEPT !.crime_type = crimeType, !.severity = severity])
    /\ channel' = IF subscribed THEN Append(channel, table'[Len(table')])
                  ELSE channel
    /\ UNCHANGED <<dbVotes, subscribed, fetch, storeVars, userId, userLocation,
                   now, voteVars, view, calls, hydrations, scenario, drops,
                   selectedFilter, lifeVars, appVars>>

NextFilter ==
    \/ \E crimeType \in CrimeTypes, severity \in Severities,
          createdAt \in StatTimes :
             EarlierReportOf(crimeType, severity, createdAt)
    \/ MountEffect
    \/ ServerQuery
    \/ FetchComplete
    \/ GetLocation(0)
    \/ \E id \in FilterIds : SelectFilter(id)

SpecFilter == Init /\ [][NextFilter]_vars

----------------------------------------------------------------------------
(* Voting on two reports at once: the table holds at most two rows.  The   *)
(* user taps a button of a report only when the row shows the latest vote  *)
(* state of that report and no call on it is in flight, so every call is   *)
(* accepted and the two mutations overlap in every order.                  *)

EarlierReportPlain ==
    /\ Len(table) < 2
    /\ fetch.phase = "idle"
    /\ InsertReport(Num(0), Num(0), 1, Null, Null)

TapVote(reportId, next) ==
    /\ Fresh(reportId)
    /\ CallsOn(reportId) = {}
    /\ HandleVote(reportId, next)

NextPair ==
    \/ EarlierReportPlain
    \/ MountEffect
    \/ ServerQuery
    \/ FetchComplete
    \/ GetUser
    \/ Render
    \/ \E reportId \in ReportIds, next \in {1, -1} : TapVote(reportId, next)
    \/ \E i \in 1..MaxCalls : ServerVote(i)
    \/ \E i \in 1..MaxCalls : ServerVoteError(i)
    \/ \E i \in 1..MaxCalls : SettleVote(i)

SpecPair == Init /\ [][NextPair]_vars

----------------------------------------------------------------------------
(* Raw rows of every shape: rows are inserted before and after the screen  *)
(* mounts, and reach the collection through the snapshot, through the      *)
(* realtime handler, or through both.                                      *)

\* <<crime_type, severity, lat, lon, upvote_no, downvote_no>> of a raw row
RawShapes ==
    {<<Str("Theft"), Num(35), Num(0), Num(0), Num(1), Null>>,
     <<Null, Str("high"), Num(0), Num(0), Null, Num(1)>>,
     <<Str("ROBBERY"), Null, Null, Num(0), Null, Null>>,
     <<Null, Num(35), Num(0), Str("90.4"), Null, Null>>}

InsertRaw(shape) ==
    /\ Len(table) < MaxReports
    /\ LET row == [RawRow(Len(table) + 1, shape[3], shape[4], 1, shape[5],
                          shape[6])
                      EXCEPT !.crime_type = shape[1], !.severity = shape[2]]
       IN  /\ table' = Append(table, row)
           /\ channel' = IF subscribed THEN Append(channel, row) ELSE channel
    /\ UNCHANGED <<dbVotes, subscribed, fetch, storeVars, userId, userLocation,
                   now, voteVars, view, calls, hydrations, scenario, drops,
                   selectedFilter, lifeVars, appVars>>

NextSanitize ==
    \/ \E shape \in RawShapes : InsertRaw(shape)
    \/ MountEffect
    \/ ServerQuery
    \/ FetchComplete
    \/ RealtimeInsert

SpecSanitize == Init /\ [][NextSanitize]_vars

----------------------------------------------------------------------------
(* The screen before and after the location is known: the user is signed   *)
(* in and has voted in an earlier session; nobody taps.                    *)

NextLocation ==
    \/ EarlierReportPlain
    \/ \E reportId \in ReportIds, value \in {1, -1} : EarlierVote(reportId, value)
    \/ MountEffect
    \/ ServerQuery
    \/ FetchComplete
    \/ GetUser
    \/ GetLocation(0)
    \/ Render
    \/ HydrateStart
    \/ \E i \in 1..MaxHydrations : ServerVotes(i)
    \/ \E i \in 1..MaxHydrations : HydrateApply(i)

SpecLocation == Init /\ [][NextLocation]_vars

----------------------------------------------------------------------------
(* Voting while rows are inserted and the snapshot is loaded: a report is   *)
(* in the table when the screen mounts, another is inserted afterwards.    *)
(* The user taps as under SpecPair.                                        *)

EarlierReportOne ==
    /\ table = <<>>
    /\ fetch.phase = "idle"
    /\ InsertReport(Num(0), Num(0), 1, Null, Null)

LaterReport ==
    /\ mounted
    /\ Len(table) = 1
    /\ InsertReport(Num(0), Num(0), 1, Null, Null)

NextLate ==
    \/ EarlierReportOne
    \/ LaterReport
    \/ MountEffect
    \/ ServerQuery
    \/ FetchComplete
    \/ RealtimeInsert
    \/ GetUser
    \/ Render
    \/ \E reportId \in ReportIds, next \in {1, -1} : TapVote(reportId, next)
    \/ \E i \in 1..MaxCalls : ServerVote(i)
    \/ \E i \in 1..MaxCalls : ServerVoteError(i)
    \/ \E i \in 1..MaxCalls : SettleVote(i)

SpecLate == Init /\ [][NextLate]_vars

----------------------------------------------------------------------------
(* Hydration beside a vote: one report, on which the user may have voted   *)
(* in an earlier session.  The user taps as under SpecPair, so no call is  *)
(* made through a stale closure and none while another is in flight.       *)

NextRace ==
    \/ EarlierReportOne
    \/ \E reportId \in ReportIds, value \in {1, -1} : EarlierVote(reportId, value)
    \/ MountEffect
    \/ ServerQuery
    \/ FetchComplete
    \/ GetUser
    \/ GetLocation(0)
    \/ Render
    \/ \E reportId \in ReportIds, next \in {1, -1} : TapVote(reportId, next)
    \/ \E i \in 1..MaxCalls : ServerVote(i)
    \/ \E i \in 1..MaxCalls : ServerVoteError(i)
    \/ \E i \in 1..MaxCalls : SettleVote(i)
    \/ HydrateStart
    \/ \E i \in 1..MaxHydrations : ServerVotes(i)
    \/ \E i \in 1..MaxHydrations : HydrateApply(i)

SpecRace == Init /\ [][NextRace]_vars

----------------------------------------------------------------------------
(* The app shell: AuthProvider mirrors the session of the auth client, the  *)
(* Gate of the root layout redirects between the (auth) and (tabs) groups.  *)
(* authEffect.events holds the auth-state-change events whose callback has  *)
(* not run yet; delivered, last and dropped are history: whether a callback *)
(* ran while mounted, the session of the latest one that did, and how many  *)
(* callbacks returned at their guard.                                       *)

\* supabase.auth.signInWithPassword succeeded: the client holds a new session
\* and tells its subscribers
SignIn ==
    /\ authBackend.issued < MaxTokens
    /\ LET sess == Session(authBackend.issued + 1)
       IN  /\ authBackend' = [current |-> sess, issued |-> authBackend.issued + 1]
           /\ authEffect' = IF authEffect.subscribed
                             THEN [authEffect EXCEPT !.events = Append(@, sess)]
                             ELSE authEffect
    /\ UNCHANGED <<backendVars, subscribed, fetch, storeVars, userId,
                   userLocation, now, voteVars, view, calls, hydrations,
                   scenario, drops, selectedFilter, lifeVars, auth, route,
                   gateRan, formVars>>

\* supabase.auth.signOut()
SignOut ==
    /\ authBackend.current.t = "session"
    /\ authBackend' = [authBackend EXCEPT !.current = NoSession]
    /\ authEffect' = IF authEffect.subscribed
                      THEN [authEffect EXCEPT !.events = Append(@, NoSession)]
                      ELSE authEffect
    /\ UNCHANGED <<backendVars, subscribed, fetch, storeVars, userId,
                   userLocation, now, voteVars, view, calls, hydrations,
                   scenario, drops, selectedFilter, lifeVars, auth, route,
                   gateRan, formVars>>

\* The effect of AuthProviderBase: mounted = true, getSession() is called and
\* the auth-state-change callback is registered
ProviderMount ==
    /\ ~authEffect.alive
    /\ authEffect.getSession = "idle"
    /\ authEffect' = [authEffect EXCEPT !.alive = TRUE, !.subscribed = TRUE,
                                        !.getSession = "pending"]
    /\ UNCHANGED <<backendVars, subscribed, fetch, storeVars, userId,
                   userLocation, now, voteVars, view, calls, hydrations,
                   scenario, drops, selectedFilter, lifeVars, auth, authBackend,
                   route, gateRan, formVars>>

\* The promise of getSession() resolves with the session the client holds
GetSessionResolve ==
    /\ authEffect.getSession = "pending"
    /\ authEffect' = [authEffect EXCEPT !.getSession = "resolved",
                                        !.data = authBackend.current]
    /\ UNCHANGED <<backendVars, subscribed, fetch, storeVars, userId,
                   userLocation, now, voteVars, view, calls, hydrations,
                   scenario, drops, selectedFilter, lifeVars, auth, authBackend,
                   route, gateRan, formVars>>

\* Mutant: the callbacks write without testing mounted
TakeSessionUnguarded(sess, effect) ==
    /\ auth' = [session |-> sess, user |-> UserOf(sess), loading |-> FALSE]
    /\ authEffect' = IF ~authEffect.alive
                      THEN [effect EXCEPT !.dropped = @ + 1]
                      ELSE [effect EXCEPT !.delivered = TRUE, !.last = sess]

\* The body shared by the two callbacks: if (!mounted) return; setSession,
\* setUser, setLoading(false).  effect is authEffect after the callback was
\* taken from what the effect awaits.
TakeSession(sess, effect) ==
    IF ~authEffect.alive
    THEN /\ auth' = auth
         /\ authEffect' = [effect EXCEPT !.dropped = @ + 1]
    ELSE /\ auth' = [session |-> sess, user |-> UserOf(sess), loading |-> FALSE]
         /\ authEffect' = [effect EXCEPT !.delivered = TRUE, !.last = sess]

\* getSession().then(({ data }) => ...)
GetSessionThen ==
    /\ authEffect.getSession = "resolved"
    /\ TakeSession(authEffect.data, [authEffect EXCEPT !.getSession = "done"])
    /\ UNCHANGED <<backendVars, subscribed, fetch, storeVars, userId,
                   userLocation, now, voteVars, view, calls, hydrations,
                   scenario, drops, selectedFilter, lifeVars, authBackend,
                   route, gateRan, formVars>>

\* onAuthStateChange((_event, sess) => ...)
AuthEvent ==
    /\ authEffect.events # <<>>
    /\ TakeSession(Head(authEffect.events),
                   [authEffect EXCEPT !.events = Tail(@)])
    /\ UNCHANGED <<backendVars, subscribed, fetch, storeVars, userId,
                   userLocation, now, voteVars, view, calls, hydrations,
                   scenario, drops, selectedFilter, lifeVars, authBackend,
                   route, gateRan, formVars>>

\* The cleanup of the effect: mounted = false, unsubscribe()
ProviderUnmount ==
    /\ authEffect.alive
    /\ authEffect' = [authEffect EXCEPT !.alive = FALSE, !.subscribed = FALSE]
    /\ UNCHANGED <<backendVars, subscribed, fetch, storeVars, userId,
                   userLocation, now, voteVars, view, calls, hydrations,
                   scenario, drops, selectedFilter, lifeVars, auth, authBackend,
                   route, gateRan, formVars>>

\* segments[0] and the screen of a route
AuthGroup == "(auth)"
TabsGroup == "(tabs)"
Screens == [group \in {AuthGroup, TabsGroup} |->
               IF group = AuthGroup THEN {"sign-in", "sign-up"}
               ELSE {"index", "report"}]

\* A Link or router.push of a screen: the user moves within the group
Navigate(screen) ==
    /\ authEffect.alive
    /\ screen \in Screens[route.group]
    /\ screen # route.screen
    /\ route' = [route EXCEPT !.screen = screen]
    /\ UNCHANGED <<backendVars, subscribed, fetch, storeVars, userId,
                   userLocation, now, voteVars, view, calls, hydrations,
                   scenario, drops, selectedFilter, lifeVars, auth, authEffect,
                   authBackend, gateRan, formVars>>

\* The dependencies [segments, session, loading] of the Gate effect
GateDeps == <<route, auth.session, auth.loading>>

\* Mutant: the Gate does not wait for loading
GateTargetEager(r, a) ==
    IF a.session.t = "null" /\ r.group # AuthGroup
    THEN [group |-> AuthGroup, screen |-> "sign-in"]
    ELSE IF a.session.t # "null" /\ r.group = AuthGroup
    THEN [group |-> TabsGroup, screen |-> "index"]
    ELSE r

\* The route after the body of the Gate effect
GateTarget(r, a) ==
    IF a.loading THEN r
    ELSE IF a.session.t = "null" /\ r.group # AuthGroup
    THEN [group |-> AuthGroup, screen |-> "sign-in"]
    ELSE IF a.session.t # "null" /\ r.group = AuthGroup
    THEN [group |-> TabsGroup, screen |-> "index"]
    ELSE r

\* The Gate effect runs after a render in which its dependencies changed
GateEffect ==
    /\ authEffect.alive
    /\ gateRan # <<GateDeps>>
    /\ route' = GateTarget(route, auth)
    /\ gateRan' = <<GateDeps>>
    /\ UNCHANGED <<backendVars, subscribed, fetch, storeVars, userId,
                   userLocation, now, voteVars, view, calls, hydrations,
                   scenario, drops, selectedFilter, lifeVars, auth, authEffect,
                   authBackend, formVars>>

NextShell ==
    \/ SignIn
    \/ SignOut
    \/ ProviderMount
    \/ GetSessionResolve
    \/ GetSessionThen
    \/ AuthEvent
    \/ ProviderUnmount
    \/ \E screen \in {"sign-in", "sign-up", "index", "report"} : Navigate(screen)
    \/ GateEffect

SpecShell == Init /\ [][NextShell]_vars

\* React runs the effect of every committed render
SpecShellFair == SpecShell /\ WF_vars(GateEffect)

----------------------------------------------------------------------------
(* The report form: the user fills the fields in any order and submits;    *)
(* the insert is answered by the backend or fails.                         *)

\* NaN
NaN == [t |-> "nan", n |-> 0, s |-> ""]

\* parseFloat on the vocabulary of the model: the number a string starts with
parseFloat(s) ==
    CASE s = "1" -> Num(1)
      [] s = "2" -> Num(2)
      [] s = "2 (Dhaka)" -> Num(2)
      [] OTHER -> NaN

\* String.prototype.trim on the vocabulary of the model
trim(s) == IF s = " arson" THEN "arson" ELSE s

\* parseLatLon: the marker when both its coordinates are truthy, else the
\* two leading numbers of locationText, else the GPS position, else null
parseLatLon(f) ==
    IF /\ f.markerLocation.t # "null"
       /\ f.markerLocation.latitude # 0
       /\ f.markerLocation.longitude # 0
    THEN LatLng(f.markerLocation.latitude, f.markerLocation.longitude)
    ELSE IF /\ Len(f.locationText) >= 2
            /\ parseFloat(f.locationText[1]) # NaN
            /\ parseFloat(f.locationText[2]) # NaN
    THEN LatLng(parseFloat(f.locationText[1]).n, parseFloat(f.locationText[2]).n)
    ELSE f.currentLocation

\* useMemo effectiveCrimeType
effectiveCrimeType(f) ==
    IF f.crimeType # "other" THEN f.crimeType
    ELSE IF f.selectedOther # "" THEN f.selectedOther ELSE "other"

\* Mutant: the incident time is not asked for
RejectionAnyTime(f) ==
    IF f.crimeType = "" THEN "Missing information"
    ELSE IF f.crimeType = "other" /\ f.selectedOther = "" THEN "Specify type"
    ELSE IF parseLatLon(f).t = "null" THEN "Invalid location"
    ELSE ""

\* The title of the alert with which submitReport returns early, "" if it
\* goes on
Rejection(f) ==
    IF f.crimeType = "" THEN "Missing information"
    ELSE IF f.crimeType = "other" /\ f.selectedOther = "" THEN "Specify type"
    ELSE IF parseLatLon(f).t = "null" THEN "Invalid location"
    ELSE IF f.pickedAt.t = "null" THEN "Time required"
    ELSE ""

\* The payload of the insert
Payload(f) ==
    [crime_type |-> toLowerCase(trim(effectiveCrimeType(f))),
     lat |-> parseLatLon(f).latitude,
     lon |-> parseLatLon(f).longitude,
     created_at |-> f.pickedAt.n]

\* Pressing a crime type card
SetCrimeType(id) ==
    /\ id # form.crimeType
    /\ form' = [form EXCEPT !.crimeType = id]
    /\ ui' = IF id = "other" THEN [ui EXCEPT !.showOtherPicker = TRUE] ELSE ui
    /\ UNCHANGED <<table, channel, submissions>>
    /\ UNCHANGED <<dbVotes, subscribed, fetch, storeVars, userId, userLocation,
                   now, voteVars, view, calls, hydrations, scenario, drops,
                   selectedFilter, lifeVars, shellVars>>

\* Pressing an item of the picker of specific types
SetSelectedOther(item) ==
    /\ ui.showOtherPicker
    /\ item # form.selectedOther
    /\ form' = [form EXCEPT !.selectedOther = item]
    /\ UNCHANGED <<table, channel, ui, submissions>>
    /\ UNCHANGED <<dbVotes, subscribed, fetch, storeVars, userId, userLocation,
                   now, voteVars, view, calls, hydrations, scenario, drops,
                   selectedFilter, lifeVars, shellVars>>

\* Closing the picker
ClosePicker ==
    /\ ui.showOtherPicker
    /\ ui' = [ui EXCEPT !.showOtherPicker = FALSE]
    /\ UNCHANGED <<table, channel, form, submissions>>
    /\ UNCHANGED <<dbVotes, subscribed, fetch, storeVars, userId, userLocation,
                   now, voteVars, view, calls, hydrations, scenario, drops,
                   selectedFilter, lifeVars, shellVars>>

\* Typing a description
SetDescription(text) ==
    /\ text # form.description
    /\ form' = [form EXCEPT !.description = text]
    /\ UNCHANGED <<table, channel, ui, submissions>>
    /\ UNCHANGED <<dbVotes, subscribed, fetch, storeVars, userId, userLocation,
                   now, voteVars, view, calls, hydrations, scenario, drops,
                   selectedFilter, lifeVars, shellVars>>

\* Picking the date and time of the incident
PickTime ==
    /\ form.pickedAt.t = "null"
    /\ form' = [form EXCEPT !.pickedAt = Num(1)]
    /\ UNCHANGED <<table, channel, ui, submissions>>
    /\ UNCHANGED <<dbVotes, subscribed, fetch, storeVars, userId, userLocation,
                   now, voteVars, view, calls, hydrations, scenario, drops,
                   selectedFilter, lifeVars, shellVars>>

\* Typing into the location field
SetLocationText(parts) ==
    /\ parts # form.locationText
    /\ form' = [form EXCEPT !.locationText = parts]
    /\ UNCHANGED <<table, channel, ui, submissions>>
    /\ UNCHANGED <<dbVotes, subscribed, fetch, storeVars, userId, userLocation,
                   now, voteVars, view, calls, hydrations, scenario, drops,
                   selectedFilter, lifeVars, shellVars>>

\* Pressing the map
MapPress(lat, lon) ==
    /\ form.markerLocation # LatLng(lat, lon)
    /\ form' = [form EXCEPT !.markerLocation = LatLng(lat, lon)]
    /\ UNCHANGED <<table, channel, ui, submissions>>
    /\ UNCHANGED <<dbVotes, subscribed, fetch, storeVars, userId, userLocation,
                   now, voteVars, view, calls, hydrations, scenario, drops,
                   selectedFilter, lifeVars, shellVars>>

\* getCurrentLocation: the GPS position arrives
GpsFix ==
    /\ form.currentLocation.t = "null"
    /\ form' = [form EXCEPT !.currentLocation = LatLng(1, 2),
                            !.markerLocation = LatLng(1, 2)]
    /\ UNCHANGED <<table, channel, ui, submissions>>
    /\ UNCHANGED <<dbVotes, subscribed, fetch, storeVars, userId, userLocation,
                   now, voteVars, view, calls, hydrations, scenario, drops,
                   selectedFilter, lifeVars, shellVars>>

\* Pressing the submit button, which is disabled while isSubmitting:
\* submitReport up to its await, that is the four early returns, else
\* setIsSubmitting(true) and the insert is sent
Submit ==
    /\ ~ui.isSubmitting
    /\ LET why == Rejection(form)
       IN  IF why # ""
           THEN /\ ui' = [ui EXCEPT
                            !.alert = why,
                            !.showOtherPicker = (why = "Specify type") \/ @]
                /\ UNCHANGED submissions
           ELSE /\ ui' = [ui EXCEPT !.isSubmitting = TRUE]
                /\ submissions' = Append(submissions,
                                         [payload |-> Payload(form), phase |-> "sent"])
    /\ UNCHANGED <<table, channel, form>>
    /\ UNCHANGED <<dbVotes, subscribed, fetch, storeVars, userId, userLocation,
                   now, voteVars, view, calls, hydrations, scenario, drops,
                   selectedFilter, lifeVars, shellVars>>

\* The backend inserts the row and tells the subscribers
ServerInsert(i) ==
    /\ i \in 1..Len(submissions)
    /\ submissions[i].phase = "sent"
    /\ Len(table) < MaxReports
    /\ LET p == submissions[i].payload
           row == [RawRow(Len(table) + 1, Num(p.lat), Num(p.lon), p.created_at,
                          Null, Null)
                      EXCEPT !.crime_type = Str(p.crime_type)]
       IN  /\ table' = Append(table, row)
           /\ channel' = IF subscribed THEN Append(channel, row) ELSE channel
    /\ submissions' = [submissions EXCEPT ![i].phase = "ok"]
    /\ UNCHANGED <<form, ui>>
    /\ UNCHANGED <<dbVotes, subscribed, fetch, storeVars, userId, userLocation,
                   now, voteVars, view, calls, hydrations, scenario, drops,
                   selectedFilter, lifeVars, shellVars>>

\* ... or the insert fails
ServerInsertError(i) ==
    /\ i \in 1..Len(submissions)
    /\ submissions[i].phase = "sent"
    /\ submissions' = [submissions EXCEPT ![i].phase = "err"]
    /\ UNCHANGED <<table, channel, form, ui>>
    /\ UNCHANGED <<dbVotes, subscribed, fetch, storeVars, userId, userLocation,
                   now, voteVars, view, calls, hydrations, scenario, drops,
                   selectedFilter, lifeVars, shellVars>>

\* submitReport after its await: the alert and the reset on success, the
\* alert of the catch block on failure, then the finally block
SettleSubmit(i) ==
    /\ i \in 1..Len(submissions)
    /\ submissions[i].phase \in {"ok", "err"}
    /\ IF submissions[i].phase = "ok"
       THEN /\ form' = [form EXCEPT !.crimeType = "", !.selectedOther = "",
                                    !.description = "", !.gender = "unknown",
                                    !.pickedAt = NoDate]
            /\ ui' = [ui EXCEPT !.isSubmitting = FALSE, !.alert = "Report submitted"]
       ELSE /\ form' = form
            /\ ui' = [ui EXCEPT !.isSubmitting = FALSE, !.alert = "Failed"]
    /\ submissions' = RemoveAt(submissions, i)
    /\ UNCHANGED <<table, channel>>
    /\ UNCHANGED <<dbVotes, subscribed, fetch, storeVars, userId, userLocation,
                   now, voteVars, view, calls, hydrations, scenario, drops,
                   selectedFilter, lifeVars, shellVars>>

\* What the user types into the location field, split at the commas
LocationTexts == {<<"">>, <<"1", "2 (Dhaka)">>, <<"1", "Dhaka">>}

NextForm ==
    \/ \E id \in {"theft", "other"} : SetCrimeType(id)
    \/ SetSelectedOther("arson")
    \/ ClosePicker
    \/ SetDescription("seen at night")
    \/ PickTime
    \/ \E parts \in LocationTexts : SetLocationText(parts)
    \/ \E lat \in {0, 1} : MapPress(lat, 2)
    \/ GpsFix
    \/ Submit
    \/ ServerInsert(1)
    \/ ServerInsertError(1)
    \/ SettleSubmit(1)

SpecForm == Init /\ [][NextForm]_vars

----------------------------------------------------------------------------
(* Claims about the report collection, under SpecStore *)

\* C1: after a snapshot load and any number of realtime INSERT events, the
\* collection holds each id at most once.
NoDuplicateIds ==
    \A i, j \in 1..Len(reports) : i # j => reports[i].id # reports[j].id

\* C8: the collection is ordered by created_at descending in every state.
OrderedByCreatedAtDesc ==
    \A i, j \in 1..Len(reports) :
        i < j => reports[i].created_at >= reports[j].created_at

\* C9: a realtime INSERT event whose lat or lon is not a number leaves the
\* collection unchanged: same length, same records, same order.
DropLeavesCollection == [][drops' # drops => reports' = reports]_vars

\* C9 witness: an event was dropped while the collection held records
DropHappened == drops > 0 /\ reports # <<>>

----------------------------------------------------------------------------
(* Claims about handleVote, under SpecVote and SpecHydrate *)

NoDbVote(reportId) == \A v \in dbVotes : v.report_id # reportId

\* C2: two handleVote(id, up) in immediate succession on a report without a
\* vote: while the first is suspended the counters have changed by (+1, 0)
\* in total and one remote call has been issued.
DoubleTapCountsOnce ==
    \A id \in ReportIds :
        LET sc == scenario[id]
        IN  (sc.ph = "double" /\ sc.cur = 0 /\ sc.dir = 1) =>
               /\ CountsOf(reports, id) =
                     [k \in 1..Len(sc.base) |-> <<sc.base[k][1] + 1, sc.base[k][2]>>]
               /\ Cardinality(CallsOn(id)) = 1

\* C3: at most one vote persistence request is outstanding per report id.
AtMostOneOutstanding ==
    \A i, j \in 1..Len(calls) :
        (i # j /\ calls[i].reportId = calls[j].reportId) =>
            ~(calls[i].phase = "sent" /\ calls[j].phase = "sent")

\* C4: when the persistence call fails, after the handler settles the counters
\* equal their values before the optimistic step and myVotes[reportId] is
\* unchanged.  Stated for the handlers that ran alone on their report.
FailedVoteRestores ==
    \A id \in ReportIds :
        LET sc == scenario[id]
        IN  sc.ph = "failed" =>
               /\ CountsOf(reports, id) = sc.base
               /\ Entry(myVotes, id) = sc.myBase

\* C7: with no vote at the start, handleVote(id, up), settled with success,
\* then handleVote(id, up) again, settled with success: the counters are back
\* at their baseline, myVotes[id] is 0 and the backend holds no vote record.
RetapRetracts ==
    \A id \in ReportIds :
        LET sc == scenario[id]
        IN  (sc.ph = "done" /\ sc.cur = 0 /\ sc.dir = 1) =>
               /\ CountsOf(reports, id) = sc.base
               /\ Entry(myVotes, id) = <<TRUE, 0>>
               /\ NoDbVote(id)

\* C7 witness: the two calls have settled
RetapDone ==
    \E id \in ReportIds :
        scenario[id].ph = "done" /\ scenario[id].cur = 0 /\ scenario[id].dir = 1

----------------------------------------------------------------------------
(* Claims about setReportCounts, under SpecCounts *)

\* The two deltas of the vote whose optimistic step a scenario recorded
StepDelta(sc) == ForwardDelta(sc.cur, NewVote(sc.cur, sc.dir))

AfterRoundTrip(start, delta) == IF delta = -1 /\ start = 0 THEN 1 ELSE start

CountersNonNegative ==
    \A i \in 1..Len(reports) :
        reports[i].upvote_no >= 0 /\ reports[i].downvote_no >= 0

\* C6 witness: a decrement was applied to a counter that was 0
ClampEngaged ==
    \E id \in ReportIds :
        LET sc == scenario[id]
        IN  /\ sc.ph = "first"
            /\ sc.base # <<>>
            /\ StepDelta(sc)[2] = -1
            /\ sc.base[1][2] = 0
            /\ CountsOf(reports, id)[1][2] = 0

----------------------------------------------------------------------------
(* Claims about the nearby-recent view, under SpecNearby *)

\* C10: with a known reference coordinate a report is in the nearby-recent
\* view if and only if it is at most 5 km away and at most 5 days old, both
\* bounds included.  Distances count 1/DistScale km, ages ms.
NearbyBoundsInclusive ==
    (userLocation.known /\ view = Rendered) =>
        \A i \in 1..Len(reports) :
            reports[i].id \in view.nearbyIds
                <=> /\ Abs(reports[i].lat - userLocation.lat) <= 5 * DistScale
                    /\ now - reports[i].created_at <= 432000000

\* C10 witness: a report at exactly 5 km and exactly 5 days is in the view and
\* one that is 1 ms older is not
NearbyAtTheBounds ==
    /\ userLocation.known
    /\ view = Rendered
    /\ \E i, j \in 1..Len(reports) :
          /\ Abs(reports[i].lat - userLocation.lat) = 5 * DistScale
          /\ now - reports[i].created_at = 432000000
          /\ reports[i].id \in view.nearbyIds
          /\ Abs(reports[j].lat - userLocation.lat) <= 5 * DistScale
          /\ now - reports[j].created_at = 432000001
          /\ reports[j].id \notin view.nearbyIds

\* C13: when the snapshot fetch fails, the continuation of fetchReports
\* leaves the collection as it was, sets the error state and clears the
\* loading flag.
FetchErrorKeepsCollection ==
    [][(fetch.phase = "answered" /\ fetch.error /\ fetch'.phase = "done") =>
          /\ reports' = reports
          /\ err' # NoErr
          /\ loading' = FALSE]_vars

\* C13 witness: the fetch has failed while the collection held a row that
\* the realtime channel had delivered
FetchFailedWithRows ==
    /\ fetch.phase = "done"
    /\ fetch.error
    /\ err # NoErr
    /\ ~loading
    /\ reports # <<>>

----------------------------------------------------------------------------
(* Claims about the subscription, under SpecLife *)

\* C14: a mounted screen holds exactly one open realtime subscription, an
\* unmounted one holds none, and no INSERT event changes the collection
\* while the screen is unmounted.
OneSubscriptionWhileMounted ==
    /\ [](openChannels = IF mounted THEN 1 ELSE 0)
    /\ [](subscribed <=> mounted)
    /\ [][~mounted => reports' = reports]_vars

\* C14 witness: the screen was mounted twice and unmounted twice, and a row
\* inserted meanwhile was not applied
UnmountedAgain ==
    /\ ~mounted
    /\ mounts = 2
    /\ table # <<>>
    /\ reports = <<>>

----------------------------------------------------------------------------
(* Claims about the filter, under SpecFilter *)

\* C11: a change of selectedFilter leaves the three statistics (total, this
\* week, high severity) and the nearby-recent view as they were, and leaves
\* the collection alone; only the pin list may change.
FilterLeavesStats ==
    [][selectedFilter' # selectedFilter =>
          /\ totalReports' = totalReports
          /\ weekCount' = weekCount
          /\ highCritical' = highCritical
          /\ nearbyRecent' = nearbyRecent
          /\ reports' = reports]_vars

\* C11 witness: a filter is selected that hides some pins and shows others,
\* while the statistics and the nearby view are not empty
FilterNarrowsPins ==
    /\ selectedFilter # "all"
    /\ filtered # <<>>
    /\ Len(filtered) < totalReports
    /\ weekCount > 0
    /\ highCritical > 0
    /\ nearbyRecent # <<>>

----------------------------------------------------------------------------
(* Claims about the vote handler, under SpecVote *)

\* voteBusy[reportId] of the latest state
IsBusy(reportId) == reportId \in DOMAIN voteBusy /\ voteBusy[reportId]

\* C12: a handleVote call made while userId is null or while the report is
\* busy changes neither the counters nor myVotes, optimisticVotes, voteBusy,
\* and issues no remote call.
GuardedCallIsNoOp ==
    [][\A reportId \in ReportIds, next \in {1, -1} :
          (HandleVote(reportId, next) /\ (userId = NullId \/ IsBusy(reportId)))
             => UNCHANGED <<reports, myVotes, optimisticVotes, voteBusy, calls,
                            dbVotes>>]_vars

\* C15: the backend holds at most one vote record per report for the
\* identity, whatever votes, switches and retractions succeeded or failed.
OneVoteRecordPerReport ==
    \A v, w \in dbVotes : v.report_id = w.report_id => v = w

\* C15 witness: the upsert of a switch from up to down has been executed and
\* the record of the report carries the new value
SwitchOverwrote ==
    \E i \in 1..Len(calls) :
        /\ calls[i].phase = "ok"
        /\ calls[i].current = 1
        /\ calls[i].newVote = -1
        /\ [report_id |-> calls[i].reportId, value |-> -1] \in dbVotes

\* What a committed vote adds to <<upvote_no, downvote_no>>
Contribution(vote) ==
    <<IF vote = 1 THEN 1 ELSE 0, IF vote = -1 THEN 1 ELSE 0>>

\* C17: whenever no mutation of a report is in flight, its counters are the
\* counters it was ingested with, adjusted by the difference between the
\* committed vote and the committed vote at the start (none, under SpecVote).
QuiescentCountersConsistent ==
    \A k \in 1..Len(reports) :
        LET id == reports[k].id
            ingested == SanitizeRow(table[id])
            committed == Contribution(CurrentVote(Empty, myVotes, id))
        IN  CallsOn(id) = {} =>
               /\ reports[k].upvote_no = ingested.upvote_no + committed[1]
               /\ reports[k].downvote_no = ingested.downvote_no + committed[2]

\* The delta table of the specification: <<delta up, delta down>> for the
\* transition from the vote current to the vote next
TableDelta(current, next) ==
    <<Contribution(next)[1] - Contribution(current)[1],
      Contribution(next)[2] - Contribution(current)[2]>>

\* C18: an accepted handleVote(id, direction), with current the value of
\* optimisticVotes[id] ?? myVotes[id] ?? none that the handler reads, takes
\* next = none if current = direction and next = direction otherwise, overlays
\* next, sends next, and moves the counters of the report by the delta of the
\* table for (current, next), clamped at zero; the delta is never <<0, 0>>,
\* so one of the six branches fires.
VoteStepFollowsTable ==
    [][\A reportId \in ReportIds, direction \in {1, -1} :
          (HandleVote(reportId, direction) /\ ~VoteGuard(view, reportId)) =>
             LET current == CurrentVote(view.optimisticVotes, view.myVotes,
                                        reportId)
                 next == IF current = direction THEN 0 ELSE direction
                 d == TableDelta(current, next)
             IN  /\ d # <<0, 0>>
                 /\ calls'[Len(calls')].newVote = next
                 /\ Entry(optimisticVotes', reportId) = <<TRUE, next>>
                 /\ Len(reports') = Len(reports)
                 /\ \A k \in 1..Len(reports) :
                       IF reports[k].id = reportId
                       THEN /\ reports'[k].upvote_no =
                                  Max(0, reports[k].upvote_no + d[1])
                            /\ reports'[k].downvote_no =
                                  Max(0, reports[k].downvote_no + d[2])
                       ELSE reports'[k] = reports[k]]_vars

\* C18 witness: the handler has taken a switch from down to up
SwitchInFlight ==
    \E i \in 1..Len(calls) :
        /\ calls[i].phase = "sent"
        /\ calls[i].current = -1
        /\ calls[i].newVote = 1

\* The records of report_votes for a report
DbVotesOf(votes, reportId) == {v \in votes : v.report_id = reportId}

\* C19: the remote call of an accepted handleVote deletes the vote record
\* of the report when next is none and upserts it with value next otherwise;
\* myVotes changes only in the step that settles a call whose remote call
\* has succeeded, and then myVotes[id] becomes next.
PersistThenCommit ==
    [][/\ \A i \in 1..Len(calls) :
             ServerVote(i) =>
                LET c == calls[i]
                IN  /\ DbVotesOf(dbVotes', c.reportId) =
                          IF c.newVote = 0 THEN {}
                          ELSE {[report_id |-> c.reportId, value |-> c.newVote]}
                    /\ \A other \in ReportIds \ {c.reportId} :
                          DbVotesOf(dbVotes', other) = DbVotesOf(dbVotes, other)
       /\ myVotes' # myVotes =>
             \E i \in 1..Len(calls) :
                /\ calls[i].phase = "ok"
                /\ calls' = RemoveAt(calls, i)
                /\ myVotes' = Put(myVotes, calls[i].reportId, calls[i].newVote)]_vars

\* C19 witness: the delete of a retraction has succeeded, the record is gone
\* and myVotes still holds the vote, the call not being settled yet
DeletedNotYetCommitted ==
    \E i \in 1..Len(calls) :
        /\ calls[i].phase = "ok"
        /\ calls[i].newVote = 0
        /\ NoDbVote(calls[i].reportId)
        /\ Entry(myVotes, calls[i].reportId) = <<TRUE, 1>>

\* C20: once the remote call of an accepted handleVote has resolved, with
\* success or with failure, a state follows in which optimisticVotes[id] is
\* absent and voteBusy[id] is false.
ResolvedVoteClearsBusy ==
    \A reportId \in ReportIds :
        (\E i \in CallsOn(reportId) : calls[i].phase \in {"ok", "err"})
           ~> (reportId \notin DOMAIN optimisticVotes /\ ~IsBusy(reportId))

\* C20 witness: a call that failed has settled; the overlay entry is gone
\* and voteBusy[id] is false
FailedVoteCleared ==
    \E reportId \in ReportIds :
        /\ scenario[reportId].ph = "failed"
        /\ reportId \notin DOMAIN optimisticVotes
        /\ Entry(voteBusy, reportId) = <<TRUE, FALSE>>
        /\ CallsOn(reportId) = {}

----------------------------------------------------------------------------
(* Claims about votes on two reports, under SpecPair *)

\* The counters and the three vote entries of a report are left as they were
SameVoteState(reportId) ==
    /\ CountsOf(reports', reportId) = CountsOf(reports, reportId)
    /\ Entry(optimisticVotes', reportId) = Entry(optimisticVotes, reportId)
    /\ Entry(voteBusy', reportId) = Entry(voteBusy, reportId)
    /\ Entry(myVotes', reportId) = Entry(myVotes, reportId)

\* C16: while a mutation on report a is in flight, handleVote on another
\* report b is accepted, and handleVote on b and the settle of the mutation
\* on b, after a success or a failure, leave the counters and the
\* optimisticVotes, voteBusy and myVotes entries of a as they were.
VotesOnOtherReportsIndependent ==
    [][\A a, b \in ReportIds :
          (a # b /\ CallsOn(a) # {}) =>
             /\ \A next \in {1, -1} :
                   (HandleVote(b, next) /\ Fresh(b) /\ userId # NullId
                       /\ ~IsBusy(b))
                      => (Len(calls') = Len(calls) + 1 /\ SameVoteState(a))
             /\ \A i \in 1..Len(calls) :
                   (SettleVote(i) /\ calls[i].reportId = b) => SameVoteState(a)]_vars

\* C16 witness: two mutations on different reports were in flight at the
\* last render, one of them has settled since and the other is in flight
SettledBesideInFlight ==
    \E a, b \in ReportIds :
        /\ a # b
        /\ Entry(view.voteBusy, a) = <<TRUE, TRUE>>
        /\ Entry(view.voteBusy, b) = <<TRUE, TRUE>>
        /\ Entry(voteBusy, b) = <<TRUE, FALSE>>
        /\ IsBusy(a)
        /\ CallsOn(a) # {}

----------------------------------------------------------------------------
(* Claims about the snapshot and the realtime handler, under SpecStore *)

\* The positions of the fetched rows that have numeric coordinates
Numeric(rows) ==
    {k \in 1..Len(rows) : rows[k].lat.t = "number" /\ rows[k].lon.t = "number"}

\* C21: after a successful snapshot load the collection is exactly the
\* fetched rows with numeric lat and lon, in fetched order, each sanitized;
\* no record of the prior collection that the batch lacks remains.
SnapshotReplacesCollection ==
    [][(fetch.phase = "answered" /\ ~fetch.error /\ fetch'.phase = "done") =>
          LET kept == Numeric(fetch.data)
          IN  /\ Len(reports') = Cardinality(kept)
              /\ \A k \in kept :
                    LET pos == Cardinality({j \in kept : j <= k})
                        raw == fetch.data[k]
                    IN  /\ reports'[pos].id = raw.id
                        /\ reports'[pos].lat = raw.lat.n
                        /\ reports'[pos].lon = raw.lon.n
                        /\ reports'[pos].created_at = raw.created_at
                        /\ reports'[pos] = SanitizeRow(raw)
              /\ Ids(reports') \subseteq Ids(fetch.data)]_vars

\* C21 witness: the snapshot has been loaded and a row with numeric
\* coordinates that the realtime channel had delivered before, and that the
\* batch lacked, is no longer in the collection
SnapshotReplacedDelivered ==
    /\ fetch.phase = "done"
    /\ ~fetch.error
    /\ channel = <<>>
    /\ reports # <<>>
    /\ \E k \in 1..Len(table) :
          HasCoords(table[k]) /\ table[k].id \notin Ids(reports)

\* C24: the handler puts a valid INSERT at the head of the collection and
\* leaves the reports held before in their order; so of two valid events
\* delivered one after the other the second is first and the first second.
InsertGoesToHead ==
    [][(RealtimeInsert /\ HasCoords(Head(channel))) =>
          /\ Len(reports') = Len(reports) + 1
          /\ reports'[1].id = Head(channel).id
          /\ \A k \in 1..Len(reports) : reports'[k + 1] = reports[k]]_vars

\* C24 witness: the fetch failed, so every record came from an event; the
\* events of reports 1 and 2 were delivered in that order
TwoInsertsDelivered ==
    /\ fetch.phase = "done"
    /\ fetch.error
    /\ channel = <<>>
    /\ Len(reports) = 2
    /\ reports[1].id = 2
    /\ reports[2].id = 1

----------------------------------------------------------------------------
(* Claims about votes beside inserts and the snapshot, under SpecLate *)

\* C22: setReportCounts for an id that the collection does not hold returns
\* the collection as it is; the settle of a vote whose report is no longer
\* held leaves the collection alone, and the rollback of a vote whose report
\* is held moves its counters by the negated delta, clamped at zero.
AbsentIdIsNoOp ==
    /\ [](\A reportId \in ReportIds \ Ids(reports), du \in Deltas, dd \in Deltas :
             setReportCounts(reports, reportId, du, dd) = reports)
    /\ [][\A i \in 1..Len(calls) :
             SettleVote(i) =>
                LET c == calls[i]
                    d == TableDelta(c.current, c.newVote)
                IN  IF c.reportId \notin Ids(reports) THEN reports' = reports
                    ELSE /\ Len(reports') = Len(reports)
                         /\ c.phase = "err" =>
                               \A k \in 1..Len(reports) :
                                  reports[k].id = c.reportId =>
                                     /\ reports'[k].upvote_no =
                                           Max(0, reports[k].upvote_no - d[1])
                                     /\ reports'[k].downvote_no =
                                           Max(0, reports[k].downvote_no - d[2])
                         /\ c.phase = "ok" =>
                               Entry(myVotes', c.reportId) = <<TRUE, c.newVote>>]_vars

\* C22 witness: a call settled while the collection, which held other
\* reports, did not hold its report
SettledWhileAbsent ==
    \E reportId \in ReportIds :
        /\ scenario[reportId].ph = "lost"
        /\ reports # <<>>

\* The counters base moved by the delta d, clamped at zero
Moved(base, d) ==
    [k \in 1..Len(base) |-> <<Max(0, base[k][1] + d[1]), Max(0, base[k][2] + d[2])>>]

\* C23: a realtime INSERT applied while a vote is suspended keeps every
\* record held, with its counters, and adds the new one; the vote steps keep
\* every record and touch the counters of the voted report only; so while
\* the vote is suspended the counters show its delta, and after a failure
\* they show the delta and then its negation, each clamped at zero.
NoTornUpdates ==
    /\ [](\A reportId \in ReportIds :
             LET sc == scenario[reportId]
             IN  /\ sc.ph = "first" =>
                       CountsOf(reports, reportId) = Moved(sc.base, StepDelta(sc))
                 /\ sc.ph = "between" =>
                       CountsOf(reports, reportId) = Moved(sc.base, StepDelta(sc))
                 /\ sc.ph = "failed" =>
                       CountsOf(reports, reportId) =
                          Moved(Moved(sc.base, StepDelta(sc)),
                                <<-StepDelta(sc)[1], -StepDelta(sc)[2]>>))
    /\ [][/\ (RealtimeInsert /\ HasCoords(Head(channel))) =>
                (Len(reports') = Len(reports) + 1
                   /\ \A k \in 1..Len(reports) : reports'[k + 1] = reports[k])
          /\ \A i \in 1..Len(calls) :
                SettleVote(i) =>
                   /\ Len(reports') = Len(reports)
                   /\ \A k \in 1..Len(reports) :
                         reports[k].id # calls[i].reportId =>
                            reports'[k] = reports[k]
          /\ \A reportId \in ReportIds, next \in {1, -1} :
                HandleVote(reportId, next) =>
                   /\ Len(reports') = Len(reports)
                   /\ \A k \in 1..Len(reports) :
                         reports[k].id # reportId => reports'[k] = reports[k]]_vars

\* C23 witness: an INSERT was applied while a vote was suspended, the vote
\* failed and was rolled back; the inserted report is at the head
InsertBesideFailedVote ==
    \E reportId \in ReportIds :
        /\ scenario[reportId].ph = "failed"
        /\ scenario[reportId].ins
        /\ Len(reports) >= 2
        /\ reports[1].id # reportId

----------------------------------------------------------------------------
(* Claims about the two sanitizations, under SpecSanitize *)

\* The record that a raw row with numeric coordinates is to become
Sanitized(r) ==
    [id |-> r.id,
     crime_type |-> IF r.crime_type.t = "null" THEN "other"
                    ELSE toLowerCase(r.crime_type.s),
     lat |-> r.lat.n,
     lon |-> r.lon.n,
     severity |-> IF r.severity.t = "number" THEN r.severity ELSE Null,
     created_at |-> r.created_at,
     upvote_no |-> IF r.upvote_no.t = "null" THEN 0 ELSE r.upvote_no.n,
     downvote_no |-> IF r.downvote_no.t = "null" THEN 0 ELSE r.downvote_no.n]

\* C25: for every raw row, the snapshot of that row alone and the realtime
\* handler applied to it on an empty collection give the same collection:
\* empty when lat or lon is not a number, otherwise the one record with the
\* crime_type lower-cased ("other" when null), the severity kept when it is
\* a number and null otherwise, and null counters replaced by 0.
SamePathsSameRecord ==
    \A k \in 1..Len(table) :
        LET r == table[k]
            snapshot == FilterMap(<<r>>)
            realtime == IngestInsert(<<>>, r)
        IN  /\ snapshot = realtime
            /\ snapshot = IF r.lat.t = "number" /\ r.lon.t = "number"
                          THEN <<Sanitized(r)>> ELSE <<>>

\* C25 witness: the collection holds the record of one raw row twice, once
\* from the snapshot and once from the handler, its null crime_type shown as
\* "other" and its string severity as null; another row was dropped by both
SameRowThroughBothPaths ==
    /\ fetch.phase = "done"
    /\ channel = <<>>
    /\ Len(reports) = 2
    /\ reports[1] = reports[2]
    /\ reports[1].crime_type = "other"
    /\ reports[1].severity = Null
    /\ reports[1].downvote_no = 1
    /\ \E k \in 1..Len(table) : table[k].id \notin Ids(reports)

----------------------------------------------------------------------------
(* Claims about the statistics and the pins, under SpecFilter *)

\* C26: whatever the filter, the total is the size of the collection, the
\* week count is the number of records created less than 7 days before now,
\* and the high count is the number of records whose severity is a number
\* of at least 3.5; a record without severity is not among them.
StatsOverFullCollection ==
    LET all == 1..Len(reports)
    IN  /\ totalReports = Cardinality(all)
        /\ weekCount =
              Cardinality({k \in all : now - reports[k].created_at < 604800000})
        /\ highCritical =
              Cardinality({k \in all : /\ reports[k].severity.t = "number"
                                       /\ reports[k].severity.n >= 35})

\* C26 witness: two records, one without severity and one at 3.5, one of
\* them a week old, while a filter hides a pin
StatsOfMixedCollection ==
    /\ Len(reports) = 2
    /\ selectedFilter # "all"
    /\ Len(filtered) < 2
    /\ \E k \in 1..2 : reports[k].severity = Null
    /\ highCritical = 1
    /\ weekCount = 1

\* C27: with the filter "all" the pins are the collection; with any other
\* filter they are the records whose crime_type is the filter, each once and
\* in the order of the collection; selecting a filter leaves the collection
\* as it is.
FilteredViewExact ==
    /\ [](LET idx == {k \in 1..Len(reports) :
                        reports[k].crime_type = selectedFilter}
          IN  IF selectedFilter = "all" THEN filtered = reports
              ELSE /\ Len(filtered) = Cardinality(idx)
                   /\ \A k \in idx :
                         filtered[Cardinality({j \in idx : j <= k})] = reports[k])
    /\ [][selectedFilter' # selectedFilter => reports' = reports]_vars

\* C27 witness: with two records of different types, first "all" and then a
\* type is selected; the pins are the one record of that type, the second of
\* the collection
FilterShowsSecond ==
    /\ selectedFilter = "robbery"
    /\ Len(reports) = 2
    /\ reports[1].crime_type # "robbery"
    /\ filtered = <<reports[2]>>

----------------------------------------------------------------------------
(* Claims about the location, under SpecLocation *)

\* C28: while userLocation is null the nearby-recent view of the collection
\* is empty, so is the one captured by the last render, no hydration query
\* is in flight and myVotes holds nothing.
NoLocationNoNearby ==
    ~userLocation.known =>
        /\ nearbyRecent = <<>>
        /\ view.nearbyIds = {}
        /\ hydrations = <<>>
        /\ myVotes = Empty

\* C28 witness: without a location, the signed-in user sees a loaded
\* collection of recent reports at the place the location will be, on which
\* the backend holds votes of theirs
LoadedWithoutLocation ==
    /\ ~userLocation.known
    /\ userId # NullId
    /\ view = Rendered
    /\ Len(reports) = 2
    /\ \A k \in 1..2 : NearbyRecent(reports[k], [lat |-> 0, lon |-> 0], now)
    /\ dbVotes # {}

----------------------------------------------------------------------------
(* Claims about hydration beside a vote, under SpecRace *)

\* C29: the step that applies a hydration response leaves myVotes[id] as it
\* was for every report that has an overlay entry in optimisticVotes when
\* the response is applied, whenever the query was issued.
HydrationKeepsPendingVotes ==
    [][\A i \in 1..Len(hydrations) :
          HydrateApply(i) =>
             \A reportId \in DOMAIN optimisticVotes :
                Entry(myVotes', reportId) = Entry(myVotes, reportId)]_vars

\* The vote the backend holds for a report: the value of its record, none
\* (0) without a record
BackendVote(reportId) ==
    IF NoDbVote(reportId) THEN 0
    ELSE (CHOOSE v \in dbVotes : v.report_id = reportId).value

\* C30: whenever no vote mutation and no hydration query is in flight, the
\* myVotes entry of every hydrated report is the vote the backend holds for
\* it, none included.
CommittedVoteAgreesWithBackend ==
    (calls = <<>> /\ hydrations = <<>>) =>
        \A reportId \in DOMAIN myVotes :
            myVotes[reportId] = BackendVote(reportId)

----------------------------------------------------------------------------
(* Claims about the overlay and the busy flag, under SpecVote *)

\* C31: in every state, each report has an entry in optimisticVotes exactly
\* when voteBusy is true for it, and that is exactly when a handleVote call
\* on it is suspended at its await or waits for its settle.
PendingIffBusy ==
    \A reportId \in ReportIds :
        /\ (reportId \in DOMAIN optimisticVotes) <=> IsBusy(reportId)
        /\ IsBusy(reportId) <=> (CallsOn(reportId) # {})

----------------------------------------------------------------------------
(* Claims about inserts during the snapshot fetch, under SpecStore *)

\* The step in which fetchReports resumes after its await
FetchCompletes == fetch.phase = "answered" /\ fetch'.phase = "done"

\* C32: when the first fetch completes, every report that the realtime
\* handler put into the collection while the fetch was in flight (before the
\* first fetch completes the collection holds no other record) is in the
\* collection exactly once.
InsertDuringFetchKept ==
    [][FetchCompletes =>
          \A reportId \in Ids(reports) :
             Cardinality({k \in 1..Len(reports') : reports'[k].id = reportId}) = 1]_vars

----------------------------------------------------------------------------
(* Claims about the frame of a vote, under SpecLate *)

\* The collection after a step holds the records it held before, in the
\* same order, each with every field but the two counters as it was
OnlyCountersMoved ==
    /\ Len(reports') = Len(reports)
    /\ \A k \in 1..Len(reports) :
          [reports'[k] EXCEPT !.upvote_no = reports[k].upvote_no,
                              !.downvote_no = reports[k].downvote_no] = reports[k]

\* C33: the step of handleVote up to its await and the step after it, on
\* success and on failure, leave the membership and the order of the
\* collection and every field of every record other than upvote_no and
\* downvote_no as they were.
VoteTouchesCountersOnly ==
    [][/\ \A reportId \in ReportIds, next \in {1, -1} :
             HandleVote(reportId, next) => OnlyCountersMoved
       /\ \A i \in 1..Len(calls) : SettleVote(i) => OnlyCountersMoved]_vars

\* C33 witness: a vote on the second of two records was committed after an
\* INSERT was applied during its call, and shows in the counters
CommittedOnSecondRecord ==
    \E reportId \in ReportIds :
        /\ scenario[reportId].ph = "between"
        /\ scenario[reportId].ins
        /\ Len(reports) = 2
        /\ reports[2].id = reportId
        /\ reports[2].upvote_no + reports[2].downvote_no > 0

----------------------------------------------------------------------------
(* Claims about the app shell, under SpecShellFair and SpecShell *)

\* The provider is mounted, has a result, and holds no session
SignedOut == authEffect.alive /\ ~auth.loading /\ auth.session.t = "null"

\* The provider is mounted, has a result, and holds a session
SignedIn == authEffect.alive /\ ~auth.loading /\ auth.session.t = "session"

\* C34: a run of the Gate effect leaves the route alone while loading is
\* true; otherwise it replaces a route outside (auth) by sign-in when there
\* is no session, a route inside (auth) by the tabs when there is one, and
\* leaves any other route alone; the group changes in no other step.  So
\* once the effect has run for the current session and route, a user
\* without session is in (auth) and a user with a session is not, and a
\* signed-out user outside (auth), or a signed-in one inside, does not stay.
GateRedirects ==
    /\ [][GateEffect =>
             route' = IF auth.loading THEN route
                      ELSE IF auth.session.t = "null" /\ route.group # "(auth)"
                      THEN [group |-> "(auth)", screen |-> "sign-in"]
                      ELSE IF auth.session.t = "session" /\ route.group = "(auth)"
                      THEN [group |-> "(tabs)", screen |-> "index"]
                      ELSE route]_vars
    /\ [][route'.group # route.group => GateEffect /\ ~auth.loading]_vars
    /\ []((SignedOut /\ gateRan = <<GateDeps>>) => route.group = "(auth)")
    /\ []((SignedIn /\ gateRan = <<GateDeps>>) => route.group # "(auth)")
    /\ (SignedOut /\ route.group # "(auth)") ~>
          (~SignedOut \/ route.group = "(auth)")
    /\ (SignedIn /\ route.group = "(auth)") ~>
          (~SignedIn \/ route.group # "(auth)")

\* C34 witness: after two sign-ins and a sign-out the Gate has run for the
\* signed-out user, who is on sign-in
GateSettledSignedOut ==
    /\ SignedOut
    /\ gateRan = <<GateDeps>>
    /\ authBackend.issued = 2
    /\ authEffect.events = <<>>
    /\ route = [group |-> "(auth)", screen |-> "sign-in"]

\* The effect of AuthProviderBase has run and so has its cleanup
ProviderGone == ~authEffect.alive /\ authEffect.getSession # "idle"

\* C35: after the cleanup of the effect no step changes session, user or
\* loading, and the subscription is closed; while mounted, before the first
\* result session and user are null and loading is true, and afterwards
\* session is the session of the latest callback, user its user or null,
\* and loading is false.
SessionMirrored ==
    /\ [][ProviderGone => auth' = auth]_vars
    /\ [](ProviderGone => ~authEffect.subscribed)
    /\ [](authEffect.alive =>
             IF authEffect.delivered
             THEN /\ auth.session = authEffect.last
                  /\ auth.user = (IF authEffect.last.t = "null" THEN NullId
                                   ELSE authEffect.last.user)
                  /\ ~auth.loading
             ELSE auth = [session |-> NoSession, user |-> NullId, loading |-> TRUE])

\* C35 witness: the provider unmounted before any result; the result of
\* getSession and an auth-state-change event came afterwards
LateResultsAfterUnmount ==
    /\ ProviderGone
    /\ authEffect.getSession = "done"
    /\ authEffect.events = <<>>
    /\ authEffect.dropped >= 2
    /\ auth.loading

----------------------------------------------------------------------------
(* Claims about the report form, under SpecForm *)

\* Coordinates can be resolved from the form: a marker with both
\* coordinates truthy, two leading numbers in the location text, or a GPS
\* position
Resolvable(f) ==
    \/ /\ f.markerLocation.t = "object"
       /\ f.markerLocation.latitude # 0
       /\ f.markerLocation.longitude # 0
    \/ /\ Len(f.locationText) >= 2
       /\ f.locationText[1] \in {"1", "2"}
       /\ f.locationText[2] \in {"1", "2", "2 (Dhaka)"}
    \/ f.currentLocation.t = "object"

\* The form passes the tests of submitReport
Complete(f) ==
    /\ f.crimeType # ""
    /\ f.crimeType = "other" => f.selectedOther # ""
    /\ Resolvable(f)
    /\ f.pickedAt.t # "null"

\* C36: submitReport sends an insert exactly when a crime type is chosen
\* (with a specific type when it is "other"), coordinates can be resolved
\* and a time is picked, and then the insert carries the specific type and
\* the picked time; otherwise it sends nothing, leaves the form and
\* isSubmitting alone; the backend table changes only by a sent insert; the
\* step after the insert sets isSubmitting to false, resets crimeType,
\* selectedOther, description, gender and pickedAt after a success and
\* leaves the form alone after a failure.
SubmitGuardedAndSettled ==
    [][/\ Submit =>
             IF Complete(form)
             THEN /\ Len(submissions') = Len(submissions) + 1
                  /\ LET sent == submissions'[Len(submissions')]
                     IN  /\ sent.phase = "sent"
                         /\ sent.payload.crime_type =
                               (IF form.crimeType = "other" THEN form.selectedOther
                                ELSE form.crimeType)
                         /\ sent.payload.created_at = form.pickedAt.n
                  /\ ui'.isSubmitting
                  /\ form' = form
             ELSE /\ submissions' = submissions
                  /\ form' = form
                  /\ ui'.isSubmitting = ui.isSubmitting
                  /\ ui'.alert \in {"Missing information", "Specify type",
                                    "Invalid location", "Time required"}
       /\ table' # table =>
             \E i \in 1..Len(submissions) :
                submissions[i].phase = "sent" /\ submissions'[i].phase = "ok"
       /\ \A i \in 1..Len(submissions) :
             SettleSubmit(i) =>
                /\ ~ui'.isSubmitting
                /\ IF submissions[i].phase = "ok"
                   THEN form' = [form EXCEPT !.crimeType = "", !.selectedOther = "",
                                            !.description = "", !.gender = "unknown",
                                            !.pickedAt = NoDate]
                   ELSE form' = form]_vars

\* C36 witness: after a report was inserted the user filled the form
\* again, with a specific type for "other" and a marker on the equator; the
\* insert failed and the form is as it was filled
FailedSubmitKeepsForm ==
    /\ table # <<>>
    /\ ui.alert = "Failed"
    /\ ~ui.isSubmitting
    /\ submissions = <<>>
    /\ form.crimeType = "other"
    /\ form.selectedOther = "arson"
    /\ form.description # ""
    /\ form.pickedAt # NoDate
    /\ form.markerLocation = LatLng(0, 2)

====
